---- MODULE Spec2Model ----
(***************************************************************************)
(* Verification model of the InsightEngine extraction pipeline:            *)
(*   - WebDataCache (services/webDataCache.ts): the LRU + TTL cache, its   *)
(*     periodic sweep and its one caller, searchFinancialDataWeb;          *)
(*   - KPINormalizer (services/kpiNormalizer.ts): company-name             *)
(*     normalisation and the fuzzy name matcher;                           *)
(*   - RatioCalculator: the financial ratios, their bounds and the         *)
(*     confidence score;                                                   *)
(*   - NumberParser (services/numberParser.ts): the conversion to          *)
(*     billions of USD and the merge of heuristic and AI results.          *)
(*                                                                         *)
(* Representation.  A JavaScript string is a sequence of one-character     *)
(* strings (<<"a","b">> is "ab").  A value of type string|null is          *)
(* NULL (<<>>) or Str(s) (<<s>>).  A JavaScript number is written as a     *)
(* fraction <<numerator, denominator>> and stands for the double nearest   *)
(* to it; sums, products, quotients and Math.round are computed on the     *)
(* doubles, bit for bit.                                                   *)
(***************************************************************************)
EXTENDS Integers, Sequences, FiniteSets, TLC

VARIABLES
    cache,          \* WebDataCache.cache: key -> [data, timestamp, expiresAt]
    accessOrder,    \* WebDataCache.accessOrder: key -> access counter value
    accessCounter,  \* WebDataCache.accessCounter
    maxCacheSize,   \* WebDataCache.maxCacheSize (set by the constructor)
    now,            \* Date.now(), in ticks of the clock
    lastOp,         \* the last cache operation, its argument and its result
    lru,            \* history: present keys, least recently accessed first
    pc,             \* searchFinancialDataWeb: per caller, where it is
    match,          \* validateCompanyNameMatch: its inputs and its result
    calc,           \* RatioCalculator: the inputs, the ratios and the results
    parse,          \* NumberParser: the arguments of a call and its result
    kpi,            \* KPINormalizer: synonymMap, and a call and its result
    insights        \* generateComparisonInsights: where the call is and what happened

vars == <<cache, accessOrder, accessCounter, maxCacheSize, now, lastOp, lru, pc, match,
         calc, parse, kpi, insights>>

cacheVars == <<cache, accessOrder, accessCounter, maxCacheSize, now, lastOp, lru, pc>>

-----------------------------------------------------------------------------
(* Bounds of the model.                                                    *)

\* Date.now() runs over 0..MaxTime.
MaxTime == 2

\* Cap on accessCounter (a JavaScript number; it never wraps in practice).
MaxAccess == 4

\* The constructor is run with maxCacheSize in 1..MaxCapacity.
MaxCapacity == 2

\* ttlMinutes of the cache under test (the singleton uses 15).
TTL == 2

-----------------------------------------------------------------------------
(* Order of evaluation.                                                    *)

\* f of the value of e, which is computed once.
Apply(f(_), e) == CHOOSE result \in { f(argument) : argument \in {e} } : TRUE

\* f of the values of a and b, which are computed once.
Apply2(f(_, _), a, b) ==
    CHOOSE result \in { f(x, y) : x \in {a}, y \in {b} } : TRUE

-----------------------------------------------------------------------------
(* JavaScript strings.                                                     *)

UpperChars == <<"A","B","C","D","E","F","G","H","I","J","K","L","M",
                "N","O","P","Q","R","S","T","U","V","W","X","Y","Z">>

LowerChars == <<"a","b","c","d","e","f","g","h","i","j","k","l","m",
                "n","o","p","q","r","s","t","u","v","w","x","y","z">>

DigitChars == <<"0","1","2","3","4","5","6","7","8","9">>

Range(s) == { s[i] : i \in 1..Len(s) }

\* [A-Z], [a-z] and \w of a JavaScript regular expression.
IsUpper(c) == c \in Range(UpperChars)

IsLower(c) == c \in Range(LowerChars)

IsWordChar(c) == IsUpper(c) \/ IsLower(c) \/ c \in Range(DigitChars) \/ c = "_"

\* A character that cannot be written between the quotes of a string of
\* this module is named by its code unit: "U+2028" is the one character
\* U+2028.  Between quotes go the ASCII characters but for the controls and
\* the grave accent, U+0080 to U+00FF, and of the others those whose low byte
\* is 0x80 or more.

\* \s (and the white space of trim): space, tab, line feed, carriage return,
\* form feed, vertical tab, U+00A0, U+1680, U+FEFF, U+2000 to U+200A, U+2028,
\* U+2029, U+202F, U+205F and U+3000.
WhiteSpace ==
    {" ", "\t", "\n", "\r", "\f", "", " ", " ", "﻿",
     "U+2000", "U+2001", "U+2002", "U+2003", "U+2004", "U+2005", "U+2006", "U+2007",
     "U+2008", "U+2009", "U+200A", "U+2028", "U+2029", "U+202F", "U+205F", "U+3000"}

\* The line terminators, which the dot of a regular expression does not
\* match: line feed, carriage return, U+2028 and U+2029.
LineTerminators == {"\n", "\r", "U+2028", "U+2029"}

IsSpace(c) == c \in WhiteSpace

\* The i flag of a regular expression whose letters are ASCII ones: A-Z
\* match a-z and the other way round, and no character beyond ASCII matches
\* a letter of the pattern (without the u flag a character beyond ASCII is
\* never made the same as an ASCII one).  One character, then a string.
ignoreCaseChar(c) ==
    IF IsUpper(c) THEN LowerChars[CHOOSE i \in 1..Len(UpperChars) : UpperChars[i] = c]
    ELSE c

ignoreCase(s) == [i \in 1..Len(s) |-> ignoreCaseChar(s[i])]

\* A character of a string is one UTF-16 code unit that is no surrogate.
\*
\* The letters beyond ASCII that String.prototype.toLowerCase changes, and
\* at the same index what it makes of them (Unicode 17).  U+0130 is not
\* among them: it becomes two characters, i and U+0307.
UpperLetters ==
    <<"À", "Á", "Â", "Ã", "Ä", "Å", "Æ", "Ç", "È", "É", "Ê", "Ë",
     "Ì", "Í", "Î", "Ï", "Ð", "Ñ", "Ò", "Ó", "Ô", "Õ", "Ö", "Ø",
     "Ù", "Ú", "Û", "Ü", "Ý", "Þ", "U+0100", "U+0102", "U+0104", "U+0106", "U+0108", "U+010A",
     "U+010C", "U+010E", "U+0110", "U+0112", "U+0114", "U+0116", "U+0118", "U+011A", "U+011C", "U+011E", "U+0120", "U+0122",
     "U+0124", "U+0126", "U+0128", "U+012A", "U+012C", "U+012E", "U+0132", "U+0134", "U+0136", "U+0139", "U+013B", "U+013D",
     "U+013F", "U+0141", "U+0143", "U+0145", "U+0147", "U+014A", "U+014C", "U+014E", "U+0150", "U+0152", "U+0154", "U+0156",
     "U+0158", "U+015A", "U+015C", "U+015E", "U+0160", "U+0162", "U+0164", "U+0166", "U+0168", "U+016A", "U+016C", "U+016E",
     "U+0170", "U+0172", "U+0174", "U+0176", "U+0178", "U+0179", "U+017B", "U+017D", "Ɓ", "Ƃ", "Ƅ", "Ɔ",
     "Ƈ", "Ɖ", "Ɗ", "Ƌ", "Ǝ", "Ə", "Ɛ", "Ƒ", "Ɠ", "Ɣ", "Ɩ", "Ɨ",
     "Ƙ", "Ɯ", "Ɲ", "Ɵ", "Ơ", "Ƣ", "Ƥ", "Ʀ", "Ƨ", "Ʃ", "Ƭ", "Ʈ",
     "Ư", "Ʊ", "Ʋ", "Ƴ", "Ƶ", "Ʒ", "Ƹ", "Ƽ", "Ǆ", "ǅ", "Ǉ", "ǈ",
     "Ǌ", "ǋ", "Ǎ", "Ǐ", "Ǒ", "Ǔ", "Ǖ", "Ǘ", "Ǚ", "Ǜ", "Ǟ", "Ǡ",
     "Ǣ", "Ǥ", "Ǧ", "Ǩ", "Ǫ", "Ǭ", "Ǯ", "Ǳ", "ǲ", "Ǵ", "Ƕ", "Ƿ",
     "Ǹ", "Ǻ", "Ǽ", "Ǿ", "U+0200", "U+0202", "U+0204", "U+0206", "U+0208", "U+020A", "U+020C", "U+020E",
     "U+0210", "U+0212", "U+0214", "U+0216", "U+0218", "U+021A", "U+021C", "U+021E", "U+0220", "U+0222", "U+0224", "U+0226",
     "U+0228", "U+022A", "U+022C", "U+022E", "U+0230", "U+0232", "U+023A", "U+023B", "U+023D", "U+023E", "U+0241", "U+0243",
     "U+0244", "U+0245", "U+0246", "U+0248", "U+024A", "U+024C", "U+024E", "U+0370", "U+0372", "U+0376", "U+037F", "Ά",
     "Έ", "Ή", "Ί", "Ό", "Ύ", "Ώ", "Α", "Β", "Γ", "Δ", "Ε", "Ζ",
     "Η", "Θ", "Ι", "Κ", "Λ", "Μ", "Ν", "Ξ", "Ο", "Π", "Ρ", "Σ",
     "Τ", "Υ", "Φ", "Χ", "Ψ", "Ω", "Ϊ", "Ϋ", "Ϗ", "Ϙ", "Ϛ", "Ϝ",
     "Ϟ", "Ϡ", "Ϣ", "Ϥ", "Ϧ", "Ϩ", "Ϫ", "Ϭ", "Ϯ", "ϴ", "Ϸ", "Ϲ",
     "Ϻ", "Ͻ", "Ͼ", "Ͽ", "U+0400", "U+0401", "U+0402", "U+0403", "U+0404", "U+0405", "U+0406", "U+0407",
     "U+0408", "U+0409", "U+040A", "U+040B", "U+040C", "U+040D", "U+040E", "U+040F", "U+0410", "U+0411", "U+0412", "U+0413",
     "U+0414", "U+0415", "U+0416", "U+0417", "U+0418", "U+0419", "U+041A", "U+041B", "U+041C", "U+041D", "U+041E", "U+041F",
     "U+0420", "U+0421", "U+0422", "U+0423", "U+0424", "U+0425", "U+0426", "U+0427", "U+0428", "U+0429", "U+042A", "U+042B",
     "U+042C", "U+042D", "U+042E", "U+042F", "U+0460", "U+0462", "U+0464", "U+0466", "U+0468", "U+046A", "U+046C", "U+046E",
     "U+0470", "U+0472", "U+0474", "U+0476", "U+0478", "U+047A", "U+047C", "U+047E", "Ҁ", "Ҋ", "Ҍ", "Ҏ",
     "Ґ", "Ғ", "Ҕ", "Җ", "Ҙ", "Қ", "Ҝ", "Ҟ", "Ҡ", "Ң", "Ҥ", "Ҧ",
     "Ҩ", "Ҫ", "Ҭ", "Ү", "Ұ", "Ҳ", "Ҵ", "Ҷ", "Ҹ", "Һ", "Ҽ", "Ҿ",
     "Ӏ", "Ӂ", "Ӄ", "Ӆ", "Ӈ", "Ӊ", "Ӌ", "Ӎ", "Ӑ", "Ӓ", "Ӕ", "Ӗ",
     "Ә", "Ӛ", "Ӝ", "Ӟ", "Ӡ", "Ӣ", "Ӥ", "Ӧ", "Ө", "Ӫ", "Ӭ", "Ӯ",
     "Ӱ", "Ӳ", "Ӵ", "Ӷ", "Ӹ", "Ӻ", "Ӽ", "Ӿ", "U+0500", "U+0502", "U+0504", "U+0506",
     "U+0508", "U+050A", "U+050C", "U+050E", "U+0510", "U+0512", "U+0514", "U+0516", "U+0518", "U+051A", "U+051C", "U+051E",
     "U+0520", "U+0522", "U+0524", "U+0526", "U+0528", "U+052A", "U+052C", "U+052E", "U+0531", "U+0532", "U+0533", "U+0534",
     "U+0535", "U+0536", "U+0537", "U+0538", "U+0539", "U+053A", "U+053B", "U+053C", "U+053D", "U+053E", "U+053F", "U+0540",
     "U+0541", "U+0542", "U+0543", "U+0544", "U+0545", "U+0546", "U+0547", "U+0548", "U+0549", "U+054A", "U+054B", "U+054C",
     "U+054D", "U+054E", "U+054F", "U+0550", "U+0551", "U+0552", "U+0553", "U+0554", "U+0555", "U+0556", "Ⴀ", "Ⴁ",
     "Ⴂ", "Ⴃ", "Ⴄ", "Ⴅ", "Ⴆ", "Ⴇ", "Ⴈ", "Ⴉ", "Ⴊ", "Ⴋ", "Ⴌ", "Ⴍ",
     "Ⴎ", "Ⴏ", "Ⴐ", "Ⴑ", "Ⴒ", "Ⴓ", "Ⴔ", "Ⴕ", "Ⴖ", "Ⴗ", "Ⴘ", "Ⴙ",
     "Ⴚ", "Ⴛ", "Ⴜ", "Ⴝ", "Ⴞ", "Ⴟ", "Ⴠ", "Ⴡ", "Ⴢ", "Ⴣ", "Ⴤ", "Ⴥ",
     "Ⴧ", "Ⴭ", "Ꭰ", "Ꭱ", "Ꭲ", "Ꭳ", "Ꭴ", "Ꭵ", "Ꭶ", "Ꭷ", "Ꭸ", "Ꭹ",
     "Ꭺ", "Ꭻ", "Ꭼ", "Ꭽ", "Ꭾ", "Ꭿ", "Ꮀ", "Ꮁ", "Ꮂ", "Ꮃ", "Ꮄ", "Ꮅ",
     "Ꮆ", "Ꮇ", "Ꮈ", "Ꮉ", "Ꮊ", "Ꮋ", "Ꮌ", "Ꮍ", "Ꮎ", "Ꮏ", "Ꮐ", "Ꮑ",
     "Ꮒ", "Ꮓ", "Ꮔ", "Ꮕ", "Ꮖ", "Ꮗ", "Ꮘ", "Ꮙ", "Ꮚ", "Ꮛ", "Ꮜ", "Ꮝ",
     "Ꮞ", "Ꮟ", "Ꮠ", "Ꮡ", "Ꮢ", "Ꮣ", "Ꮤ", "Ꮥ", "Ꮦ", "Ꮧ", "Ꮨ", "Ꮩ",
     "Ꮪ", "Ꮫ", "Ꮬ", "Ꮭ", "Ꮮ", "Ꮯ", "Ꮰ", "Ꮱ", "Ꮲ", "Ꮳ", "Ꮴ", "Ꮵ",
     "Ꮶ", "Ꮷ", "Ꮸ", "Ꮹ", "Ꮺ", "Ꮻ", "Ꮼ", "Ꮽ", "Ꮾ", "Ꮿ", "Ᏸ", "Ᏹ",
     "Ᏺ", "Ᏻ", "Ᏼ", "Ᏽ", "Ᲊ", "Ა", "Ბ", "Გ", "Დ", "Ე", "Ვ", "Ზ",
     "Თ", "Ი", "Კ", "Ლ", "Მ", "Ნ", "Ო", "Პ", "Ჟ", "Რ", "Ს", "Ტ",
     "Უ", "Ფ", "Ქ", "Ღ", "Ყ", "Შ", "Ჩ", "Ც", "Ძ", "Წ", "Ჭ", "Ხ",
     "Ჯ", "Ჰ", "Ჱ", "Ჲ", "Ჳ", "Ჴ", "Ჵ", "Ჶ", "Ჷ", "Ჸ", "Ჹ", "Ჺ",
     "Ჽ", "Ჾ", "Ჿ", "U+1E00", "U+1E02", "U+1E04", "U+1E06", "U+1E08", "U+1E0A", "U+1E0C", "U+1E0E", "U+1E10",
     "U+1E12", "U+1E14", "U+1E16", "U+1E18", "U+1E1A", "U+1E1C", "U+1E1E", "U+1E20", "U+1E22", "U+1E24", "U+1E26", "U+1E28",
     "U+1E2A", "U+1E2C", "U+1E2E", "U+1E30", "U+1E32", "U+1E34", "U+1E36", "U+1E38", "U+1E3A", "U+1E3C", "U+1E3E", "U+1E40",
     "U+1E42", "U+1E44", "U+1E46", "U+1E48", "U+1E4A", "U+1E4C", "U+1E4E", "U+1E50", "U+1E52", "U+1E54", "U+1E56", "U+1E58",
     "U+1E5A", "U+1E5C", "U+1E5E", "U+1E60", "U+1E62", "U+1E64", "U+1E66", "U+1E68", "U+1E6A", "U+1E6C", "U+1E6E", "U+1E70",
     "U+1E72", "U+1E74", "U+1E76", "U+1E78", "U+1E7A", "U+1E7C", "U+1E7E", "Ẁ", "Ẃ", "Ẅ", "Ẇ", "Ẉ",
     "Ẋ", "Ẍ", "Ẏ", "Ẑ", "Ẓ", "Ẕ", "ẞ", "Ạ", "Ả", "Ấ", "Ầ", "Ẩ",
     "Ẫ", "Ậ", "Ắ", "Ằ", "Ẳ", "Ẵ", "Ặ", "Ẹ", "Ẻ", "Ẽ", "Ế", "Ề",
     "Ể", "Ễ", "Ệ", "Ỉ", "Ị", "Ọ", "Ỏ", "Ố", "Ồ", "Ổ", "Ỗ", "Ộ",
     "Ớ", "Ờ", "Ở", "Ỡ", "Ợ", "Ụ", "Ủ", "Ứ", "Ừ", "Ử", "Ữ", "Ự",
     "Ỳ", "Ỵ", "Ỷ", "Ỹ", "Ỻ", "Ỽ", "Ỿ", "U+1F08", "U+1F09", "U+1F0A", "U+1F0B", "U+1F0C",
     "U+1F0D", "U+1F0E", "U+1F0F", "U+1F18", "U+1F19", "U+1F1A", "U+1F1B", "U+1F1C", "U+1F1D", "U+1F28", "U+1F29", "U+1F2A",
     "U+1F2B", "U+1F2C", "U+1F2D", "U+1F2E", "U+1F2F", "U+1F38", "U+1F39", "U+1F3A", "U+1F3B", "U+1F3C", "U+1F3D", "U+1F3E",
     "U+1F3F", "U+1F48", "U+1F49", "U+1F4A", "U+1F4B", "U+1F4C", "U+1F4D", "U+1F59", "U+1F5B", "U+1F5D", "U+1F5F", "U+1F68",
     "U+1F69", "U+1F6A", "U+1F6B", "U+1F6C", "U+1F6D", "U+1F6E", "U+1F6F", "ᾈ", "ᾉ", "ᾊ", "ᾋ", "ᾌ",
     "ᾍ", "ᾎ", "ᾏ", "ᾘ", "ᾙ", "ᾚ", "ᾛ", "ᾜ", "ᾝ", "ᾞ", "ᾟ", "ᾨ",
     "ᾩ", "ᾪ", "ᾫ", "ᾬ", "ᾭ", "ᾮ", "ᾯ", "Ᾰ", "Ᾱ", "Ὰ", "Ά", "ᾼ",
     "Ὲ", "Έ", "Ὴ", "Ή", "ῌ", "Ῐ", "Ῑ", "Ὶ", "Ί", "Ῠ", "Ῡ", "Ὺ",
     "Ύ", "Ῥ", "Ὸ", "Ό", "Ὼ", "Ώ", "ῼ", "U+2126", "U+212A", "U+212B", "U+2132", "U+2160",
     "U+2161", "U+2162", "U+2163", "U+2164", "U+2165", "U+2166", "U+2167", "U+2168", "U+2169", "U+216A", "U+216B", "U+216C",
     "U+216D", "U+216E", "U+216F", "Ↄ", "Ⓐ", "Ⓑ", "Ⓒ", "Ⓓ", "Ⓔ", "Ⓕ", "Ⓖ", "Ⓗ",
     "Ⓘ", "Ⓙ", "Ⓚ", "Ⓛ", "Ⓜ", "Ⓝ", "Ⓞ", "Ⓟ", "Ⓠ", "Ⓡ", "Ⓢ", "Ⓣ",
     "Ⓤ", "Ⓥ", "Ⓦ", "Ⓧ", "Ⓨ", "Ⓩ", "U+2C00", "U+2C01", "U+2C02", "U+2C03", "U+2C04", "U+2C05",
     "U+2C06", "U+2C07", "U+2C08", "U+2C09", "U+2C0A", "U+2C0B", "U+2C0C", "U+2C0D", "U+2C0E", "U+2C0F", "U+2C10", "U+2C11",
     "U+2C12", "U+2C13", "U+2C14", "U+2C15", "U+2C16", "U+2C17", "U+2C18", "U+2C19", "U+2C1A", "U+2C1B", "U+2C1C", "U+2C1D",
     "U+2C1E", "U+2C1F", "U+2C20", "U+2C21", "U+2C22", "U+2C23", "U+2C24", "U+2C25", "U+2C26", "U+2C27", "U+2C28", "U+2C29",
     "U+2C2A", "U+2C2B", "U+2C2C", "U+2C2D", "U+2C2E", "U+2C2F", "U+2C60", "U+2C62", "U+2C63", "U+2C64", "U+2C67", "U+2C69",
     "U+2C6B", "U+2C6D", "U+2C6E", "U+2C6F", "U+2C70", "U+2C72", "U+2C75", "U+2C7E", "U+2C7F", "Ⲁ", "Ⲃ", "Ⲅ",
     "Ⲇ", "Ⲉ", "Ⲋ", "Ⲍ", "Ⲏ", "Ⲑ", "Ⲓ", "Ⲕ", "Ⲗ", "Ⲙ", "Ⲛ", "Ⲝ",
     "Ⲟ", "Ⲡ", "Ⲣ", "Ⲥ", "Ⲧ", "Ⲩ", "Ⲫ", "Ⲭ", "Ⲯ", "Ⲱ", "Ⲳ", "Ⲵ",
     "Ⲷ", "Ⲹ", "Ⲻ", "Ⲽ", "Ⲿ", "Ⳁ", "Ⳃ", "Ⳅ", "Ⳇ", "Ⳉ", "Ⳋ", "Ⳍ",
     "Ⳏ", "Ⳑ", "Ⳓ", "Ⳕ", "Ⳗ", "Ⳙ", "Ⳛ", "Ⳝ", "Ⳟ", "Ⳡ", "Ⳣ", "Ⳬ",
     "Ⳮ", "Ⳳ", "U+A640", "U+A642", "U+A644", "U+A646", "U+A648", "U+A64A", "U+A64C", "U+A64E", "U+A650", "U+A652",
     "U+A654", "U+A656", "U+A658", "U+A65A", "U+A65C", "U+A65E", "U+A660", "U+A662", "U+A664", "U+A666", "U+A668", "U+A66A",
     "U+A66C", "Ꚁ", "Ꚃ", "Ꚅ", "Ꚇ", "Ꚉ", "Ꚋ", "Ꚍ", "Ꚏ", "Ꚑ", "Ꚓ", "Ꚕ",
     "Ꚗ", "Ꚙ", "Ꚛ", "U+A722", "U+A724", "U+A726", "U+A728", "U+A72A", "U+A72C", "U+A72E", "U+A732", "U+A734",
     "U+A736", "U+A738", "U+A73A", "U+A73C", "U+A73E", "U+A740", "U+A742", "U+A744", "U+A746", "U+A748", "U+A74A", "U+A74C",
     "U+A74E", "U+A750", "U+A752", "U+A754", "U+A756", "U+A758", "U+A75A", "U+A75C", "U+A75E", "U+A760", "U+A762", "U+A764",
     "U+A766", "U+A768", "U+A76A", "U+A76C", "U+A76E", "U+A779", "U+A77B", "U+A77D", "U+A77E", "Ꞁ", "Ꞃ", "Ꞅ",
     "Ꞇ", "Ꞌ", "Ɥ", "Ꞑ", "Ꞓ", "Ꞗ", "Ꞙ", "Ꞛ", "Ꞝ", "Ꞟ", "Ꞡ", "Ꞣ",
     "Ꞥ", "Ꞧ", "Ꞩ", "Ɦ", "Ɜ", "Ɡ", "Ɬ", "Ɪ", "Ʞ", "Ʇ", "Ʝ", "Ꭓ",
     "Ꞵ", "Ꞷ", "Ꞹ", "Ꞻ", "Ꞽ", "Ꞿ", "Ꟁ", "Ꟃ", "Ꞔ", "Ʂ", "Ᶎ", "Ꟈ",
     "Ꟊ", "Ɤ", "Ꟍ", "꟎", "Ꟑ", "꟒", "꟔", "Ꟗ", "Ꟙ", "Ꟛ", "Ƛ", "Ꟶ",
     "U+FF21", "U+FF22", "U+FF23", "U+FF24", "U+FF25", "U+FF26", "U+FF27", "U+FF28", "U+FF29", "U+FF2A", "U+FF2B", "U+FF2C",
     "U+FF2D", "U+FF2E", "U+FF2F", "U+FF30", "U+FF31", "U+FF32", "U+FF33", "U+FF34", "U+FF35", "U+FF36", "U+FF37", "U+FF38",
     "U+FF39", "U+FF3A">>

LowerLetters ==
    <<"à", "á", "â", "ã", "ä", "å", "æ", "ç", "è", "é", "ê", "ë",
     "ì", "í", "î", "ï", "ð", "ñ", "ò", "ó", "ô", "õ", "ö", "ø",
     "ù", "ú", "û", "ü", "ý", "þ", "U+0101", "U+0103", "U+0105", "U+0107", "U+0109", "U+010B",
     "U+010D", "U+010F", "U+0111", "U+0113", "U+0115", "U+0117", "U+0119", "U+011B", "U+011D", "U+011F", "U+0121", "U+0123",
     "U+0125", "U+0127", "U+0129", "U+012B", "U+012D", "U+012F", "U+0133", "U+0135", "U+0137", "U+013A", "U+013C", "U+013E",
     "U+0140", "U+0142", "U+0144", "U+0146", "U+0148", "U+014B", "U+014D", "U+014F", "U+0151", "U+0153", "U+0155", "U+0157",
     "U+0159", "U+015B", "U+015D", "U+015F", "U+0161", "U+0163", "U+0165", "U+0167", "U+0169", "U+016B", "U+016D", "U+016F",
     "U+0171", "U+0173", "U+0175", "U+0177", "ÿ", "U+017A", "U+017C", "U+017E", "U+0253", "ƃ", "ƅ", "U+0254",
     "ƈ", "U+0256", "U+0257", "ƌ", "ǝ", "U+0259", "U+025B", "ƒ", "U+0260", "U+0263", "U+0269", "U+0268",
     "ƙ", "U+026F", "U+0272", "U+0275", "ơ", "ƣ", "ƥ", "ʀ", "ƨ", "ʃ", "ƭ", "ʈ",
     "ư", "ʊ", "ʋ", "ƴ", "ƶ", "ʒ", "ƹ", "ƽ", "ǆ", "ǆ", "ǉ", "ǉ",
     "ǌ", "ǌ", "ǎ", "ǐ", "ǒ", "ǔ", "ǖ", "ǘ", "ǚ", "ǜ", "ǟ", "ǡ",
     "ǣ", "ǥ", "ǧ", "ǩ", "ǫ", "ǭ", "ǯ", "ǳ", "ǳ", "ǵ", "ƕ", "ƿ",
     "ǹ", "ǻ", "ǽ", "ǿ", "U+0201", "U+0203", "U+0205", "U+0207", "U+0209", "U+020B", "U+020D", "U+020F",
     "U+0211", "U+0213", "U+0215", "U+0217", "U+0219", "U+021B", "U+021D", "U+021F", "ƞ", "U+0223", "U+0225", "U+0227",
     "U+0229", "U+022B", "U+022D", "U+022F", "U+0231", "U+0233", "U+2C65", "U+023C", "ƚ", "U+2C66", "U+0242", "ƀ",
     "ʉ", "ʌ", "U+0247", "U+0249", "U+024B", "U+024D", "U+024F", "U+0371", "U+0373", "U+0377", "ϳ", "ά",
     "έ", "ή", "ί", "ό", "ύ", "ώ", "α", "β", "γ", "δ", "ε", "ζ",
     "η", "θ", "ι", "κ", "λ", "μ", "ν", "ξ", "ο", "π", "ρ", "σ",
     "τ", "υ", "φ", "χ", "ψ", "ω", "ϊ", "ϋ", "ϗ", "ϙ", "ϛ", "ϝ",
     "ϟ", "ϡ", "ϣ", "ϥ", "ϧ", "ϩ", "ϫ", "ϭ", "ϯ", "θ", "ϸ", "ϲ",
     "ϻ", "U+037B", "U+037C", "U+037D", "U+0450", "U+0451", "U+0452", "U+0453", "U+0454", "U+0455", "U+0456", "U+0457",
     "U+0458", "U+0459", "U+045A", "U+045B", "U+045C", "U+045D", "U+045E", "U+045F", "U+0430", "U+0431", "U+0432", "U+0433",
     "U+0434", "U+0435", "U+0436", "U+0437", "U+0438", "U+0439", "U+043A", "U+043B", "U+043C", "U+043D", "U+043E", "U+043F",
     "U+0440", "U+0441", "U+0442", "U+0443", "U+0444", "U+0445", "U+0446", "U+0447", "U+0448", "U+0449", "U+044A", "U+044B",
     "U+044C", "U+044D", "U+044E", "U+044F", "U+0461", "U+0463", "U+0465", "U+0467", "U+0469", "U+046B", "U+046D", "U+046F",
     "U+0471", "U+0473", "U+0475", "U+0477", "U+0479", "U+047B", "U+047D", "U+047F", "ҁ", "ҋ", "ҍ", "ҏ",
     "ґ", "ғ", "ҕ", "җ", "ҙ", "қ", "ҝ", "ҟ", "ҡ", "ң", "ҥ", "ҧ",
     "ҩ", "ҫ", "ҭ", "ү", "ұ", "ҳ", "ҵ", "ҷ", "ҹ", "һ", "ҽ", "ҿ",
     "ӏ", "ӂ", "ӄ", "ӆ", "ӈ", "ӊ", "ӌ", "ӎ", "ӑ", "ӓ", "ӕ", "ӗ",
     "ә", "ӛ", "ӝ", "ӟ", "ӡ", "ӣ", "ӥ", "ӧ", "ө", "ӫ", "ӭ", "ӯ",
     "ӱ", "ӳ", "ӵ", "ӷ", "ӹ", "ӻ", "ӽ", "ӿ", "U+0501", "U+0503", "U+0505", "U+0507",
     "U+0509", "U+050B", "U+050D", "U+050F", "U+0511", "U+0513", "U+0515", "U+0517", "U+0519", "U+051B", "U+051D", "U+051F",
     "U+0521", "U+0523", "U+0525", "U+0527", "U+0529", "U+052B", "U+052D", "U+052F", "U+0561", "U+0562", "U+0563", "U+0564",
     "U+0565", "U+0566", "U+0567", "U+0568", "U+0569", "U+056A", "U+056B", "U+056C", "U+056D", "U+056E", "U+056F", "U+0570",
     "U+0571", "U+0572", "U+0573", "U+0574", "U+0575", "U+0576", "U+0577", "U+0578", "U+0579", "U+057A", "U+057B", "U+057C",
     "U+057D", "U+057E", "U+057F", "ր", "ց", "ւ", "փ", "ք", "օ", "ֆ", "U+2D00", "U+2D01",
     "U+2D02", "U+2D03", "U+2D04", "U+2D05", "U+2D06", "U+2D07", "U+2D08", "U+2D09", "U+2D0A", "U+2D0B", "U+2D0C", "U+2D0D",
     "U+2D0E", "U+2D0F", "U+2D10", "U+2D11", "U+2D12", "U+2D13", "U+2D14", "U+2D15", "U+2D16", "U+2D17", "U+2D18", "U+2D19",
     "U+2D1A", "U+2D1B", "U+2D1C", "U+2D1D", "U+2D1E", "U+2D1F", "U+2D20", "U+2D21", "U+2D22", "U+2D23", "U+2D24", "U+2D25",
     "U+2D27", "U+2D2D", "U+AB70", "U+AB71", "U+AB72", "U+AB73", "U+AB74", "U+AB75", "U+AB76", "U+AB77", "U+AB78", "U+AB79",
     "U+AB7A", "U+AB7B", "U+AB7C", "U+AB7D", "U+AB7E", "U+AB7F", "ꮀ", "ꮁ", "ꮂ", "ꮃ", "ꮄ", "ꮅ",
     "ꮆ", "ꮇ", "ꮈ", "ꮉ", "ꮊ", "ꮋ", "ꮌ", "ꮍ", "ꮎ", "ꮏ", "ꮐ", "ꮑ",
     "ꮒ", "ꮓ", "ꮔ", "ꮕ", "ꮖ", "ꮗ", "ꮘ", "ꮙ", "ꮚ", "ꮛ", "ꮜ", "ꮝ",
     "ꮞ", "ꮟ", "ꮠ", "ꮡ", "ꮢ", "ꮣ", "ꮤ", "ꮥ", "ꮦ", "ꮧ", "ꮨ", "ꮩ",
     "ꮪ", "ꮫ", "ꮬ", "ꮭ", "ꮮ", "ꮯ", "ꮰ", "ꮱ", "ꮲ", "ꮳ", "ꮴ", "ꮵ",
     "ꮶ", "ꮷ", "ꮸ", "ꮹ", "ꮺ", "ꮻ", "ꮼ", "ꮽ", "ꮾ", "ꮿ", "ᏸ", "ᏹ",
     "ᏺ", "ᏻ", "ᏼ", "ᏽ", "ᲊ", "ა", "ბ", "გ", "დ", "ე", "ვ", "ზ",
     "თ", "ი", "კ", "ლ", "მ", "ნ", "ო", "პ", "ჟ", "რ", "ს", "ტ",
     "უ", "ფ", "ქ", "ღ", "ყ", "შ", "ჩ", "ც", "ძ", "წ", "ჭ", "ხ",
     "ჯ", "ჰ", "ჱ", "ჲ", "ჳ", "ჴ", "ჵ", "ჶ", "ჷ", "ჸ", "ჹ", "ჺ",
     "ჽ", "ჾ", "ჿ", "U+1E01", "U+1E03", "U+1E05", "U+1E07", "U+1E09", "U+1E0B", "U+1E0D", "U+1E0F", "U+1E11",
     "U+1E13", "U+1E15", "U+1E17", "U+1E19", "U+1E1B", "U+1E1D", "U+1E1F", "U+1E21", "U+1E23", "U+1E25", "U+1E27", "U+1E29",
     "U+1E2B", "U+1E2D", "U+1E2F", "U+1E31", "U+1E33", "U+1E35", "U+1E37", "U+1E39", "U+1E3B", "U+1E3D", "U+1E3F", "U+1E41",
     "U+1E43", "U+1E45", "U+1E47", "U+1E49", "U+1E4B", "U+1E4D", "U+1E4F", "U+1E51", "U+1E53", "U+1E55", "U+1E57", "U+1E59",
     "U+1E5B", "U+1E5D", "U+1E5F", "U+1E61", "U+1E63", "U+1E65", "U+1E67", "U+1E69", "U+1E6B", "U+1E6D", "U+1E6F", "U+1E71",
     "U+1E73", "U+1E75", "U+1E77", "U+1E79", "U+1E7B", "U+1E7D", "U+1E7F", "ẁ", "ẃ", "ẅ", "ẇ", "ẉ",
     "ẋ", "ẍ", "ẏ", "ẑ", "ẓ", "ẕ", "ß", "ạ", "ả", "ấ", "ầ", "ẩ",
     "ẫ", "ậ", "ắ", "ằ", "ẳ", "ẵ", "ặ", "ẹ", "ẻ", "ẽ", "ế", "ề",
     "ể", "ễ", "ệ", "ỉ", "ị", "ọ", "ỏ", "ố", "ồ", "ổ", "ỗ", "ộ",
     "ớ", "ờ", "ở", "ỡ", "ợ", "ụ", "ủ", "ứ", "ừ", "ử", "ữ", "ự",
     "ỳ", "ỵ", "ỷ", "ỹ", "ỻ", "ỽ", "ỿ", "U+1F00", "U+1F01", "U+1F02", "U+1F03", "U+1F04",
     "U+1F05", "U+1F06", "U+1F07", "U+1F10", "U+1F11", "U+1F12", "U+1F13", "U+1F14", "U+1F15", "U+1F20", "U+1F21", "U+1F22",
     "U+1F23", "U+1F24", "U+1F25", "U+1F26", "U+1F27", "U+1F30", "U+1F31", "U+1F32", "U+1F33", "U+1F34", "U+1F35", "U+1F36",
     "U+1F37", "U+1F40", "U+1F41", "U+1F42", "U+1F43", "U+1F44", "U+1F45", "U+1F51", "U+1F53", "U+1F55", "U+1F57", "U+1F60",
     "U+1F61", "U+1F62", "U+1F63", "U+1F64", "U+1F65", "U+1F66", "U+1F67", "ᾀ", "ᾁ", "ᾂ", "ᾃ", "ᾄ",
     "ᾅ", "ᾆ", "ᾇ", "ᾐ", "ᾑ", "ᾒ", "ᾓ", "ᾔ", "ᾕ", "ᾖ", "ᾗ", "ᾠ",
     "ᾡ", "ᾢ", "ᾣ", "ᾤ", "ᾥ", "ᾦ", "ᾧ", "ᾰ", "ᾱ", "U+1F70", "U+1F71", "ᾳ",
     "U+1F72", "U+1F73", "U+1F74", "U+1F75", "ῃ", "ῐ", "ῑ", "U+1F76", "U+1F77", "ῠ", "ῡ", "U+1F7A",
     "U+1F7B", "ῥ", "U+1F78", "U+1F79", "U+1F7C", "U+1F7D", "ῳ", "ω", "k", "å", "U+214E", "U+2170",
     "U+2171", "U+2172", "U+2173", "U+2174", "U+2175", "U+2176", "U+2177", "U+2178", "U+2179", "U+217A", "U+217B", "U+217C",
     "U+217D", "U+217E", "U+217F", "ↄ", "ⓐ", "ⓑ", "ⓒ", "ⓓ", "ⓔ", "ⓕ", "ⓖ", "ⓗ",
     "ⓘ", "ⓙ", "ⓚ", "ⓛ", "ⓜ", "ⓝ", "ⓞ", "ⓟ", "ⓠ", "ⓡ", "ⓢ", "ⓣ",
     "ⓤ", "ⓥ", "ⓦ", "ⓧ", "ⓨ", "ⓩ", "U+2C30", "U+2C31", "U+2C32", "U+2C33", "U+2C34", "U+2C35",
     "U+2C36", "U+2C37", "U+2C38", "U+2C39", "U+2C3A", "U+2C3B", "U+2C3C", "U+2C3D", "U+2C3E", "U+2C3F", "U+2C40", "U+2C41",
     "U+2C42", "U+2C43", "U+2C44", "U+2C45", "U+2C46", "U+2C47", "U+2C48", "U+2C49", "U+2C4A", "U+2C4B", "U+2C4C", "U+2C4D",
     "U+2C4E", "U+2C4F", "U+2C50", "U+2C51", "U+2C52", "U+2C53", "U+2C54", "U+2C55", "U+2C56", "U+2C57", "U+2C58", "U+2C59",
     "U+2C5A", "U+2C5B", "U+2C5C", "U+2C5D", "U+2C5E", "U+2C5F", "U+2C61", "U+026B", "U+1D7D", "U+027D", "U+2C68", "U+2C6A",
     "U+2C6C", "U+0251", "U+0271", "U+0250", "U+0252", "U+2C73", "U+2C76", "U+023F", "U+0240", "ⲁ", "ⲃ", "ⲅ",
     "ⲇ", "ⲉ", "ⲋ", "ⲍ", "ⲏ", "ⲑ", "ⲓ", "ⲕ", "ⲗ", "ⲙ", "ⲛ", "ⲝ",
     "ⲟ", "ⲡ", "ⲣ", "ⲥ", "ⲧ", "ⲩ", "ⲫ", "ⲭ", "ⲯ", "ⲱ", "ⲳ", "ⲵ",
     "ⲷ", "ⲹ", "ⲻ", "ⲽ", "ⲿ", "ⳁ", "ⳃ", "ⳅ", "ⳇ", "ⳉ", "ⳋ", "ⳍ",
     "ⳏ", "ⳑ", "ⳓ", "ⳕ", "ⳗ", "ⳙ", "ⳛ", "ⳝ", "ⳟ", "ⳡ", "ⳣ", "ⳬ",
     "ⳮ", "ⳳ", "U+A641", "U+A643", "U+A645", "U+A647", "U+A649", "U+A64B", "U+A64D", "U+A64F", "U+A651", "U+A653",
     "U+A655", "U+A657", "U+A659", "U+A65B", "U+A65D", "U+A65F", "U+A661", "U+A663", "U+A665", "U+A667", "U+A669", "U+A66B",
     "U+A66D", "ꚁ", "ꚃ", "ꚅ", "ꚇ", "ꚉ", "ꚋ", "ꚍ", "ꚏ", "ꚑ", "ꚓ", "ꚕ",
     "ꚗ", "ꚙ", "ꚛ", "U+A723", "U+A725", "U+A727", "U+A729", "U+A72B", "U+A72D", "U+A72F", "U+A733", "U+A735",
     "U+A737", "U+A739", "U+A73B", "U+A73D", "U+A73F", "U+A741", "U+A743", "U+A745", "U+A747", "U+A749", "U+A74B", "U+A74D",
     "U+A74F", "U+A751", "U+A753", "U+A755", "U+A757", "U+A759", "U+A75B", "U+A75D", "U+A75F", "U+A761", "U+A763", "U+A765",
     "U+A767", "U+A769", "U+A76B", "U+A76D", "U+A76F", "U+A77A", "U+A77C", "U+1D79", "U+A77F", "ꞁ", "ꞃ", "ꞅ",
     "ꞇ", "ꞌ", "U+0265", "ꞑ", "ꞓ", "ꞗ", "ꞙ", "ꞛ", "ꞝ", "ꞟ", "ꞡ", "ꞣ",
     "ꞥ", "ꞧ", "ꞩ", "U+0266", "U+025C", "U+0261", "U+026C", "U+026A", "ʞ", "ʇ", "ʝ", "U+AB53",
     "ꞵ", "ꞷ", "ꞹ", "ꞻ", "ꞽ", "ꞿ", "ꟁ", "ꟃ", "ꞔ", "ʂ", "ᶎ", "ꟈ",
     "ꟊ", "U+0264", "ꟍ", "꟏", "ꟑ", "ꟓ", "ꟕ", "ꟗ", "ꟙ", "ꟛ", "ƛ", "ꟶ",
     "U+FF41", "U+FF42", "U+FF43", "U+FF44", "U+FF45", "U+FF46", "U+FF47", "U+FF48", "U+FF49", "U+FF4A", "U+FF4B", "U+FF4C",
     "U+FF4D", "U+FF4E", "U+FF4F", "U+FF50", "U+FF51", "U+FF52", "U+FF53", "U+FF54", "U+FF55", "U+FF56", "U+FF57", "U+FF58",
     "U+FF59", "U+FF5A">>

UpperLetterSet == Range(UpperLetters)

\* The characters that are cased and the ones that are case-ignorable, as
\* toLowerCase takes them when it looks around a capital sigma: a character
\* that is both is passed over, and is listed as case-ignorable only.
CasedLetters ==
    {"A", "B", "C", "D", "E", "F", "G", "H", "I", "J", "K", "L",
     "M", "N", "O", "P", "Q", "R", "S", "T", "U", "V", "W", "X",
     "Y", "Z", "a", "b", "c", "d", "e", "f", "g", "h", "i", "j",
     "k", "l", "m", "n", "o", "p", "q", "r", "s", "t", "u", "v",
     "w", "x", "y", "z", "ª", "µ", "º", "À", "Á", "Â", "Ã", "Ä",
     "Å", "Æ", "Ç", "È", "É", "Ê", "Ë", "Ì", "Í", "Î", "Ï", "Ð",
     "Ñ", "Ò", "Ó", "Ô", "Õ", "Ö", "Ø", "Ù", "Ú", "Û", "Ü", "Ý",
     "Þ", "ß", "à", "á", "â", "ã", "ä", "å", "æ", "ç", "è", "é",
     "ê", "ë", "ì", "í", "î", "ï", "ð", "ñ", "ò", "ó", "ô", "õ",
     "ö", "ø", "ù", "ú", "û", "ü", "ý", "þ", "ÿ", "U+0100", "U+0101", "U+0102",
     "U+0103", "U+0104", "U+0105", "U+0106", "U+0107", "U+0108", "U+0109", "U+010A", "U+010B", "U+010C", "U+010D", "U+010E",
     "U+010F", "U+0110", "U+0111", "U+0112", "U+0113", "U+0114", "U+0115", "U+0116", "U+0117", "U+0118", "U+0119", "U+011A",
     "U+011B", "U+011C", "U+011D", "U+011E", "U+011F", "U+0120", "U+0121", "U+0122", "U+0123", "U+0124", "U+0125", "U+0126",
     "U+0127", "U+0128", "U+0129", "U+012A", "U+012B", "U+012C", "U+012D", "U+012E", "U+012F", "U+0130", "U+0131", "U+0132",
     "U+0133", "U+0134", "U+0135", "U+0136", "U+0137", "U+0138", "U+0139", "U+013A", "U+013B", "U+013C", "U+013D", "U+013E",
     "U+013F", "U+0140", "U+0141", "U+0142", "U+0143", "U+0144", "U+0145", "U+0146", "U+0147", "U+0148", "U+0149", "U+014A",
     "U+014B", "U+014C", "U+014D", "U+014E", "U+014F", "U+0150", "U+0151", "U+0152", "U+0153", "U+0154", "U+0155", "U+0156",
     "U+0157", "U+0158", "U+0159", "U+015A", "U+015B", "U+015C", "U+015D", "U+015E", "U+015F", "U+0160", "U+0161", "U+0162",
     "U+0163", "U+0164", "U+0165", "U+0166", "U+0167", "U+0168", "U+0169", "U+016A", "U+016B", "U+016C", "U+016D", "U+016E",
     "U+016F", "U+0170", "U+0171", "U+0172", "U+0173", "U+0174", "U+0175", "U+0176", "U+0177", "U+0178", "U+0179", "U+017A",
     "U+017B", "U+017C", "U+017D", "U+017E", "U+017F", "ƀ", "Ɓ", "Ƃ", "ƃ", "Ƅ", "ƅ", "Ɔ",
     "Ƈ", "ƈ", "Ɖ", "Ɗ", "Ƌ", "ƌ", "ƍ", "Ǝ", "Ə", "Ɛ", "Ƒ", "ƒ",
     "Ɠ", "Ɣ", "ƕ", "Ɩ", "Ɨ", "Ƙ", "ƙ", "ƚ", "ƛ", "Ɯ", "Ɲ", "ƞ",
     "Ɵ", "Ơ", "ơ", "Ƣ", "ƣ", "Ƥ", "ƥ", "Ʀ", "Ƨ", "ƨ", "Ʃ", "ƪ",
     "ƫ", "Ƭ", "ƭ", "Ʈ", "Ư", "ư", "Ʊ", "Ʋ", "Ƴ", "ƴ", "Ƶ", "ƶ",
     "Ʒ", "Ƹ", "ƹ", "ƺ", "Ƽ", "ƽ", "ƾ", "ƿ", "Ǆ", "ǅ", "ǆ", "Ǉ",
     "ǈ", "ǉ", "Ǌ", "ǋ", "ǌ", "Ǎ", "ǎ", "Ǐ", "ǐ", "Ǒ", "ǒ", "Ǔ",
     "ǔ", "Ǖ", "ǖ", "Ǘ", "ǘ", "Ǚ", "ǚ", "Ǜ", "ǜ", "ǝ", "Ǟ", "ǟ",
     "Ǡ", "ǡ", "Ǣ", "ǣ", "Ǥ", "ǥ", "Ǧ", "ǧ", "Ǩ", "ǩ", "Ǫ", "ǫ",
     "Ǭ", "ǭ", "Ǯ", "ǯ", "ǰ", "Ǳ", "ǲ", "ǳ", "Ǵ", "ǵ", "Ƕ", "Ƿ",
     "Ǹ", "ǹ", "Ǻ", "ǻ", "Ǽ", "ǽ", "Ǿ", "ǿ", "U+0200", "U+0201", "U+0202", "U+0203",
     "U+0204", "U+0205", "U+0206", "U+0207", "U+0208", "U+0209", "U+020A", "U+020B", "U+020C", "U+020D", "U+020E", "U+020F",
     "U+0210", "U+0211", "U+0212", "U+0213", "U+0214", "U+0215", "U+0216", "U+0217", "U+0218", "U+0219", "U+021A", "U+021B",
     "U+021C", "U+021D", "U+021E", "U+021F", "U+0220", "U+0221", "U+0222", "U+0223", "U+0224", "U+0225", "U+0226", "U+0227",
     "U+0228", "U+0229", "U+022A", "U+022B", "U+022C", "U+022D", "U+022E", "U+022F", "U+0230", "U+0231", "U+0232", "U+0233",
     "U+0234", "U+0235", "U+0236", "U+0237", "U+0238", "U+0239", "U+023A", "U+023B", "U+023C", "U+023D", "U+023E", "U+023F",
     "U+0240", "U+0241", "U+0242", "U+0243", "U+0244", "U+0245", "U+0246", "U+0247", "U+0248", "U+0249", "U+024A", "U+024B",
     "U+024C", "U+024D", "U+024E", "U+024F", "U+0250", "U+0251", "U+0252", "U+0253", "U+0254", "U+0255", "U+0256", "U+0257",
     "U+0258", "U+0259", "U+025A", "U+025B", "U+025C", "U+025D", "U+025E", "U+025F", "U+0260", "U+0261", "U+0262", "U+0263",
     "U+0264", "U+0265", "U+0266", "U+0267", "U+0268", "U+0269", "U+026A", "U+026B", "U+026C", "U+026D", "U+026E", "U+026F",
     "U+0270", "U+0271", "U+0272", "U+0273", "U+0274", "U+0275", "U+0276", "U+0277", "U+0278", "U+0279", "U+027A", "U+027B",
     "U+027C", "U+027D", "U+027E", "U+027F", "ʀ", "ʁ", "ʂ", "ʃ", "ʄ", "ʅ", "ʆ", "ʇ",
     "ʈ", "ʉ", "ʊ", "ʋ", "ʌ", "ʍ", "ʎ", "ʏ", "ʐ", "ʑ", "ʒ", "ʓ",
     "ʖ", "ʗ", "ʘ", "ʙ", "ʚ", "ʛ", "ʜ", "ʝ", "ʞ", "ʟ", "ʠ", "ʡ",
     "ʢ", "ʣ", "ʤ", "ʥ", "ʦ", "ʧ", "ʨ", "ʩ", "ʪ", "ʫ", "ʬ", "ʭ",
     "ʮ", "ʯ", "U+0370", "U+0371", "U+0372", "U+0373", "U+0376", "U+0377", "U+037B", "U+037C", "U+037D", "U+037F",
     "Ά", "Έ", "Ή", "Ί", "Ό", "Ύ", "Ώ", "ΐ", "Α", "Β", "Γ", "Δ",
     "Ε", "Ζ", "Η", "Θ", "Ι", "Κ", "Λ", "Μ", "Ν", "Ξ", "Ο", "Π",
     "Ρ", "Σ", "Τ", "Υ", "Φ", "Χ", "Ψ", "Ω", "Ϊ", "Ϋ", "ά", "έ",
     "ή", "ί", "ΰ", "α", "β", "γ", "δ", "ε", "ζ", "η", "θ", "ι",
     "κ", "λ", "μ", "ν", "ξ", "ο", "π", "ρ", "ς", "σ", "τ", "υ",
     "φ", "χ", "ψ", "ω", "ϊ", "ϋ", "ό", "ύ", "ώ", "Ϗ", "ϐ", "ϑ",
     "ϒ", "ϓ", "ϔ", "ϕ", "ϖ", "ϗ", "Ϙ", "ϙ", "Ϛ", "ϛ", "Ϝ", "ϝ",
     "Ϟ", "ϟ", "Ϡ", "ϡ", "Ϣ", "ϣ", "Ϥ", "ϥ", "Ϧ", "ϧ", "Ϩ", "ϩ",
     "Ϫ", "ϫ", "Ϭ", "ϭ", "Ϯ", "ϯ", "ϰ", "ϱ", "ϲ", "ϳ", "ϴ", "ϵ",
     "Ϸ", "ϸ", "Ϲ", "Ϻ", "ϻ", "ϼ", "Ͻ", "Ͼ", "Ͽ", "U+0400", "U+0401", "U+0402",
     "U+0403", "U+0404", "U+0405", "U+0406", "U+0407", "U+0408", "U+0409", "U+040A", "U+040B", "U+040C", "U+040D", "U+040E",
     "U+040F", "U+0410", "U+0411", "U+0412", "U+0413", "U+0414", "U+0415", "U+0416", "U+0417", "U+0418", "U+0419", "U+041A",
     "U+041B", "U+041C", "U+041D", "U+041E", "U+041F", "U+0420", "U+0421", "U+0422", "U+0423", "U+0424", "U+0425", "U+0426",
     "U+0427", "U+0428", "U+0429", "U+042A", "U+042B", "U+042C", "U+042D", "U+042E", "U+042F", "U+0430", "U+0431", "U+0432",
     "U+0433", "U+0434", "U+0435", "U+0436", "U+0437", "U+0438", "U+0439", "U+043A", "U+043B", "U+043C", "U+043D", "U+043E",
     "U+043F", "U+0440", "U+0441", "U+0442", "U+0443", "U+0444", "U+0445", "U+0446", "U+0447", "U+0448", "U+0449", "U+044A",
     "U+044B", "U+044C", "U+044D", "U+044E", "U+044F", "U+0450", "U+0451", "U+0452", "U+0453", "U+0454", "U+0455", "U+0456",
     "U+0457", "U+0458", "U+0459", "U+045A", "U+045B", "U+045C", "U+045D", "U+045E", "U+045F", "U+0460", "U+0461", "U+0462",
     "U+0463", "U+0464", "U+0465", "U+0466", "U+0467", "U+0468", "U+0469", "U+046A", "U+046B", "U+046C", "U+046D", "U+046E",
     "U+046F", "U+0470", "U+0471", "U+0472", "U+0473", "U+0474", "U+0475", "U+0476", "U+0477", "U+0478", "U+0479", "U+047A",
     "U+047B", "U+047C", "U+047D", "U+047E", "U+047F", "Ҁ", "ҁ", "Ҋ", "ҋ", "Ҍ", "ҍ", "Ҏ",
     "ҏ", "Ґ", "ґ", "Ғ", "ғ", "Ҕ", "ҕ", "Җ", "җ", "Ҙ", "ҙ", "Қ",
     "қ", "Ҝ", "ҝ", "Ҟ", "ҟ", "Ҡ", "ҡ", "Ң", "ң", "Ҥ", "ҥ", "Ҧ",
     "ҧ", "Ҩ", "ҩ", "Ҫ", "ҫ", "Ҭ", "ҭ", "Ү", "ү", "Ұ", "ұ", "Ҳ",
     "ҳ", "Ҵ", "ҵ", "Ҷ", "ҷ", "Ҹ", "ҹ", "Һ", "һ", "Ҽ", "ҽ", "Ҿ",
     "ҿ", "Ӏ", "Ӂ", "ӂ", "Ӄ", "ӄ", "Ӆ", "ӆ", "Ӈ", "ӈ", "Ӊ", "ӊ",
     "Ӌ", "ӌ", "Ӎ", "ӎ", "ӏ", "Ӑ", "ӑ", "Ӓ", "ӓ", "Ӕ", "ӕ", "Ӗ",
     "ӗ", "Ә", "ә", "Ӛ", "ӛ", "Ӝ", "ӝ", "Ӟ", "ӟ", "Ӡ", "ӡ", "Ӣ",
     "ӣ", "Ӥ", "ӥ", "Ӧ", "ӧ", "Ө", "ө", "Ӫ", "ӫ", "Ӭ", "ӭ", "Ӯ",
     "ӯ", "Ӱ", "ӱ", "Ӳ", "ӳ", "Ӵ", "ӵ", "Ӷ", "ӷ", "Ӹ", "ӹ", "Ӻ",
     "ӻ", "Ӽ", "ӽ", "Ӿ", "ӿ", "U+0500", "U+0501", "U+0502", "U+0503", "U+0504", "U+0505", "U+0506",
     "U+0507", "U+0508", "U+0509", "U+050A", "U+050B", "U+050C", "U+050D", "U+050E", "U+050F", "U+0510", "U+0511", "U+0512",
     "U+0513", "U+0514", "U+0515", "U+0516", "U+0517", "U+0518", "U+0519", "U+051A", "U+051B", "U+051C", "U+051D", "U+051E",
     "U+051F", "U+0520", "U+0521", "U+0522", "U+0523", "U+0524", "U+0525", "U+0526", "U+0527", "U+0528", "U+0529", "U+052A",
     "U+052B", "U+052C", "U+052D", "U+052E", "U+052F", "U+0531", "U+0532", "U+0533", "U+0534", "U+0535", "U+0536", "U+0537",
     "U+0538", "U+0539", "U+053A", "U+053B", "U+053C", "U+053D", "U+053E", "U+053F", "U+0540", "U+0541", "U+0542", "U+0543",
     "U+0544", "U+0545", "U+0546", "U+0547", "U+0548", "U+0549", "U+054A", "U+054B", "U+054C", "U+054D", "U+054E", "U+054F",
     "U+0550", "U+0551", "U+0552", "U+0553", "U+0554", "U+0555", "U+0556", "U+0560", "U+0561", "U+0562", "U+0563", "U+0564",
     "U+0565", "U+0566", "U+0567", "U+0568", "U+0569", "U+056A", "U+056B", "U+056C", "U+056D", "U+056E", "U+056F", "U+0570",
     "U+0571", "U+0572", "U+0573", "U+0574", "U+0575", "U+0576", "U+0577", "U+0578", "U+0579", "U+057A", "U+057B", "U+057C",
     "U+057D", "U+057E", "U+057F", "ր", "ց", "ւ", "փ", "ք", "օ", "ֆ", "և", "ֈ",
     "Ⴀ", "Ⴁ", "Ⴂ", "Ⴃ", "Ⴄ", "Ⴅ", "Ⴆ", "Ⴇ", "Ⴈ", "Ⴉ", "Ⴊ", "Ⴋ",
     "Ⴌ", "Ⴍ", "Ⴎ", "Ⴏ", "Ⴐ", "Ⴑ", "Ⴒ", "Ⴓ", "Ⴔ", "Ⴕ", "Ⴖ", "Ⴗ",
     "Ⴘ", "Ⴙ", "Ⴚ", "Ⴛ", "Ⴜ", "Ⴝ", "Ⴞ", "Ⴟ", "Ⴠ", "Ⴡ", "Ⴢ", "Ⴣ",
     "Ⴤ", "Ⴥ", "Ⴧ", "Ⴭ", "ა", "ბ", "გ", "დ", "ე", "ვ", "ზ", "თ",
     "ი", "კ", "ლ", "მ", "ნ", "ო", "პ", "ჟ", "რ", "ს", "ტ", "უ",
     "ფ", "ქ", "ღ", "ყ", "შ", "ჩ", "ც", "ძ", "წ", "ჭ", "ხ", "ჯ",
     "ჰ", "ჱ", "ჲ", "ჳ", "ჴ", "ჵ", "ჶ", "ჷ", "ჸ", "ჹ", "ჺ", "ჽ",
     "ჾ", "ჿ", "Ꭰ", "Ꭱ", "Ꭲ", "Ꭳ", "Ꭴ", "Ꭵ", "Ꭶ", "Ꭷ", "Ꭸ", "Ꭹ",
     "Ꭺ", "Ꭻ", "Ꭼ", "Ꭽ", "Ꭾ", "Ꭿ", "Ꮀ", "Ꮁ", "Ꮂ", "Ꮃ", "Ꮄ", "Ꮅ",
     "Ꮆ", "Ꮇ", "Ꮈ", "Ꮉ", "Ꮊ", "Ꮋ", "Ꮌ", "Ꮍ", "Ꮎ", "Ꮏ", "Ꮐ", "Ꮑ",
     "Ꮒ", "Ꮓ", "Ꮔ", "Ꮕ", "Ꮖ", "Ꮗ", "Ꮘ", "Ꮙ", "Ꮚ", "Ꮛ", "Ꮜ", "Ꮝ",
     "Ꮞ", "Ꮟ", "Ꮠ", "Ꮡ", "Ꮢ", "Ꮣ", "Ꮤ", "Ꮥ", "Ꮦ", "Ꮧ", "Ꮨ", "Ꮩ",
     "Ꮪ", "Ꮫ", "Ꮬ", "Ꮭ", "Ꮮ", "Ꮯ", "Ꮰ", "Ꮱ", "Ꮲ", "Ꮳ", "Ꮴ", "Ꮵ",
     "Ꮶ", "Ꮷ", "Ꮸ", "Ꮹ", "Ꮺ", "Ꮻ", "Ꮼ", "Ꮽ", "Ꮾ", "Ꮿ", "Ᏸ", "Ᏹ",
     "Ᏺ", "Ᏻ", "Ᏼ", "Ᏽ", "ᏸ", "ᏹ", "ᏺ", "ᏻ", "ᏼ", "ᏽ", "ᲀ", "ᲁ",
     "ᲂ", "ᲃ", "ᲄ", "ᲅ", "ᲆ", "ᲇ", "ᲈ", "Ᲊ", "ᲊ", "Ა", "Ბ", "Გ",
     "Დ", "Ე", "Ვ", "Ზ", "Თ", "Ი", "Კ", "Ლ", "Მ", "Ნ", "Ო", "Პ",
     "Ჟ", "Რ", "Ს", "Ტ", "Უ", "Ფ", "Ქ", "Ღ", "Ყ", "Შ", "Ჩ", "Ც",
     "Ძ", "Წ", "Ჭ", "Ხ", "Ჯ", "Ჰ", "Ჱ", "Ჲ", "Ჳ", "Ჴ", "Ჵ", "Ჶ",
     "Ჷ", "Ჸ", "Ჹ", "Ჺ", "Ჽ", "Ჾ", "Ჿ", "U+1D00", "U+1D01", "U+1D02", "U+1D03", "U+1D04",
     "U+1D05", "U+1D06", "U+1D07", "U+1D08", "U+1D09", "U+1D0A", "U+1D0B", "U+1D0C", "U+1D0D", "U+1D0E", "U+1D0F", "U+1D10",
     "U+1D11", "U+1D12", "U+1D13", "U+1D14", "U+1D15", "U+1D16", "U+1D17", "U+1D18", "U+1D19", "U+1D1A", "U+1D1B", "U+1D1C",
     "U+1D1D", "U+1D1E", "U+1D1F", "U+1D20", "U+1D21", "U+1D22", "U+1D23", "U+1D24", "U+1D25", "U+1D26", "U+1D27", "U+1D28",
     "U+1D29", "U+1D2A", "U+1D2B", "U+1D6B", "U+1D6C", "U+1D6D", "U+1D6E", "U+1D6F", "U+1D70", "U+1D71", "U+1D72", "U+1D73",
     "U+1D74", "U+1D75", "U+1D76", "U+1D77", "U+1D79", "U+1D7A", "U+1D7B", "U+1D7C", "U+1D7D", "U+1D7E", "U+1D7F", "ᶀ",
     "ᶁ", "ᶂ", "ᶃ", "ᶄ", "ᶅ", "ᶆ", "ᶇ", "ᶈ", "ᶉ", "ᶊ", "ᶋ", "ᶌ",
     "ᶍ", "ᶎ", "ᶏ", "ᶐ", "ᶑ", "ᶒ", "ᶓ", "ᶔ", "ᶕ", "ᶖ", "ᶗ", "ᶘ",
     "ᶙ", "ᶚ", "U+1E00", "U+1E01", "U+1E02", "U+1E03", "U+1E04", "U+1E05", "U+1E06", "U+1E07", "U+1E08", "U+1E09",
     "U+1E0A", "U+1E0B", "U+1E0C", "U+1E0D", "U+1E0E", "U+1E0F", "U+1E10", "U+1E11", "U+1E12", "U+1E13", "U+1E14", "U+1E15",
     "U+1E16", "U+1E17", "U+1E18", "U+1E19", "U+1E1A", "U+1E1B", "U+1E1C", "U+1E1D", "U+1E1E", "U+1E1F", "U+1E20", "U+1E21",
     "U+1E22", "U+1E23", "U+1E24", "U+1E25", "U+1E26", "U+1E27", "U+1E28", "U+1E29", "U+1E2A", "U+1E2B", "U+1E2C", "U+1E2D",
     "U+1E2E", "U+1E2F", "U+1E30", "U+1E31", "U+1E32", "U+1E33", "U+1E34", "U+1E35", "U+1E36", "U+1E37", "U+1E38", "U+1E39",
     "U+1E3A", "U+1E3B", "U+1E3C", "U+1E3D", "U+1E3E", "U+1E3F", "U+1E40", "U+1E41", "U+1E42", "U+1E43", "U+1E44", "U+1E45",
     "U+1E46", "U+1E47", "U+1E48", "U+1E49", "U+1E4A", "U+1E4B", "U+1E4C", "U+1E4D", "U+1E4E", "U+1E4F", "U+1E50", "U+1E51",
     "U+1E52", "U+1E53", "U+1E54", "U+1E55", "U+1E56", "U+1E57", "U+1E58", "U+1E59", "U+1E5A", "U+1E5B", "U+1E5C", "U+1E5D",
     "U+1E5E", "U+1E5F", "U+1E60", "U+1E61", "U+1E62", "U+1E63", "U+1E64", "U+1E65", "U+1E66", "U+1E67", "U+1E68", "U+1E69",
     "U+1E6A", "U+1E6B", "U+1E6C", "U+1E6D", "U+1E6E", "U+1E6F", "U+1E70", "U+1E71", "U+1E72", "U+1E73", "U+1E74", "U+1E75",
     "U+1E76", "U+1E77", "U+1E78", "U+1E79", "U+1E7A", "U+1E7B", "U+1E7C", "U+1E7D", "U+1E7E", "U+1E7F", "Ẁ", "ẁ",
     "Ẃ", "ẃ", "Ẅ", "ẅ", "Ẇ", "ẇ", "Ẉ", "ẉ", "Ẋ", "ẋ", "Ẍ", "ẍ",
     "Ẏ", "ẏ", "Ẑ", "ẑ", "Ẓ", "ẓ", "Ẕ", "ẕ", "ẖ", "ẗ", "ẘ", "ẙ",
     "ẚ", "ẛ", "ẜ", "ẝ", "ẞ", "ẟ", "Ạ", "ạ", "Ả", "ả", "Ấ", "ấ",
     "Ầ", "ầ", "Ẩ", "ẩ", "Ẫ", "ẫ", "Ậ", "ậ", "Ắ", "ắ", "Ằ", "ằ",
     "Ẳ", "ẳ", "Ẵ", "ẵ", "Ặ", "ặ", "Ẹ", "ẹ", "Ẻ", "ẻ", "Ẽ", "ẽ",
     "Ế", "ế", "Ề", "ề", "Ể", "ể", "Ễ", "ễ", "Ệ", "ệ", "Ỉ", "ỉ",
     "Ị", "ị", "Ọ", "ọ", "Ỏ", "ỏ", "Ố", "ố", "Ồ", "ồ", "Ổ", "ổ",
     "Ỗ", "ỗ", "Ộ", "ộ", "Ớ", "ớ", "Ờ", "ờ", "Ở", "ở", "Ỡ", "ỡ",
     "Ợ", "ợ", "Ụ", "ụ", "Ủ", "ủ", "Ứ", "ứ", "Ừ", "ừ", "Ử", "ử",
     "Ữ", "ữ", "Ự", "ự", "Ỳ", "ỳ", "Ỵ", "ỵ", "Ỷ", "ỷ", "Ỹ", "ỹ",
     "Ỻ", "ỻ", "Ỽ", "ỽ", "Ỿ", "ỿ", "U+1F00", "U+1F01", "U+1F02", "U+1F03", "U+1F04", "U+1F05",
     "U+1F06", "U+1F07", "U+1F08", "U+1F09", "U+1F0A", "U+1F0B", "U+1F0C", "U+1F0D", "U+1F0E", "U+1F0F", "U+1F10", "U+1F11",
     "U+1F12", "U+1F13", "U+1F14", "U+1F15", "U+1F18", "U+1F19", "U+1F1A", "U+1F1B", "U+1F1C", "U+1F1D", "U+1F20", "U+1F21",
     "U+1F22", "U+1F23", "U+1F24", "U+1F25", "U+1F26", "U+1F27", "U+1F28", "U+1F29", "U+1F2A", "U+1F2B", "U+1F2C", "U+1F2D",
     "U+1F2E", "U+1F2F", "U+1F30", "U+1F31", "U+1F32", "U+1F33", "U+1F34", "U+1F35", "U+1F36", "U+1F37", "U+1F38", "U+1F39",
     "U+1F3A", "U+1F3B", "U+1F3C", "U+1F3D", "U+1F3E", "U+1F3F", "U+1F40", "U+1F41", "U+1F42", "U+1F43", "U+1F44", "U+1F45",
     "U+1F48", "U+1F49", "U+1F4A", "U+1F4B", "U+1F4C", "U+1F4D", "U+1F50", "U+1F51", "U+1F52", "U+1F53", "U+1F54", "U+1F55",
     "U+1F56", "U+1F57", "U+1F59", "U+1F5B", "U+1F5D", "U+1F5F", "U+1F60", "U+1F61", "U+1F62", "U+1F63", "U+1F64", "U+1F65",
     "U+1F66", "U+1F67", "U+1F68", "U+1F69", "U+1F6A", "U+1F6B", "U+1F6C", "U+1F6D", "U+1F6E", "U+1F6F", "U+1F70", "U+1F71",
     "U+1F72", "U+1F73", "U+1F74", "U+1F75", "U+1F76", "U+1F77", "U+1F78", "U+1F79", "U+1F7A", "U+1F7B", "U+1F7C", "U+1F7D",
     "ᾀ", "ᾁ", "ᾂ", "ᾃ", "ᾄ", "ᾅ", "ᾆ", "ᾇ", "ᾈ", "ᾉ", "ᾊ", "ᾋ",
     "ᾌ", "ᾍ", "ᾎ", "ᾏ", "ᾐ", "ᾑ", "ᾒ", "ᾓ", "ᾔ", "ᾕ", "ᾖ", "ᾗ",
     "ᾘ", "ᾙ", "ᾚ", "ᾛ", "ᾜ", "ᾝ", "ᾞ", "ᾟ", "ᾠ", "ᾡ", "ᾢ", "ᾣ",
     "ᾤ", "ᾥ", "ᾦ", "ᾧ", "ᾨ", "ᾩ", "ᾪ", "ᾫ", "ᾬ", "ᾭ", "ᾮ", "ᾯ",
     "ᾰ", "ᾱ", "ᾲ", "ᾳ", "ᾴ", "ᾶ", "ᾷ", "Ᾰ", "Ᾱ", "Ὰ", "Ά", "ᾼ",
     "ι", "ῂ", "ῃ", "ῄ", "ῆ", "ῇ", "Ὲ", "Έ", "Ὴ", "Ή", "ῌ", "ῐ",
     "ῑ", "ῒ", "ΐ", "ῖ", "ῗ", "Ῐ", "Ῑ", "Ὶ", "Ί", "ῠ", "ῡ", "ῢ",
     "ΰ", "ῤ", "ῥ", "ῦ", "ῧ", "Ῠ", "Ῡ", "Ὺ", "Ύ", "Ῥ", "ῲ", "ῳ",
     "ῴ", "ῶ", "ῷ", "Ὸ", "Ό", "Ὼ", "Ώ", "ῼ", "U+2102", "U+2107", "U+210A", "U+210B",
     "U+210C", "U+210D", "U+210E", "U+210F", "U+2110", "U+2111", "U+2112", "U+2113", "U+2115", "U+2119", "U+211A", "U+211B",
     "U+211C", "U+211D", "U+2124", "U+2126", "U+2128", "U+212A", "U+212B", "U+212C", "U+212D", "U+212F", "U+2130", "U+2131",
     "U+2132", "U+2133", "U+2134", "U+2139", "U+213C", "U+213D", "U+213E", "U+213F", "U+2145", "U+2146", "U+2147", "U+2148",
     "U+2149", "U+214E", "U+2160", "U+2161", "U+2162", "U+2163", "U+2164", "U+2165", "U+2166", "U+2167", "U+2168", "U+2169",
     "U+216A", "U+216B", "U+216C", "U+216D", "U+216E", "U+216F", "U+2170", "U+2171", "U+2172", "U+2173", "U+2174", "U+2175",
     "U+2176", "U+2177", "U+2178", "U+2179", "U+217A", "U+217B", "U+217C", "U+217D", "U+217E", "U+217F", "Ↄ", "ↄ",
     "Ⓐ", "Ⓑ", "Ⓒ", "Ⓓ", "Ⓔ", "Ⓕ", "Ⓖ", "Ⓗ", "Ⓘ", "Ⓙ", "Ⓚ", "Ⓛ",
     "Ⓜ", "Ⓝ", "Ⓞ", "Ⓟ", "Ⓠ", "Ⓡ", "Ⓢ", "Ⓣ", "Ⓤ", "Ⓥ", "Ⓦ", "Ⓧ",
     "Ⓨ", "Ⓩ", "ⓐ", "ⓑ", "ⓒ", "ⓓ", "ⓔ", "ⓕ", "ⓖ", "ⓗ", "ⓘ", "ⓙ",
     "ⓚ", "ⓛ", "ⓜ", "ⓝ", "ⓞ", "ⓟ", "ⓠ", "ⓡ", "ⓢ", "ⓣ", "ⓤ", "ⓥ",
     "ⓦ", "ⓧ", "ⓨ", "ⓩ", "U+2C00", "U+2C01", "U+2C02", "U+2C03", "U+2C04", "U+2C05", "U+2C06", "U+2C07",
     "U+2C08", "U+2C09", "U+2C0A", "U+2C0B", "U+2C0C", "U+2C0D", "U+2C0E", "U+2C0F", "U+2C10", "U+2C11", "U+2C12", "U+2C13",
     "U+2C14", "U+2C15", "U+2C16", "U+2C17", "U+2C18", "U+2C19", "U+2C1A", "U+2C1B", "U+2C1C", "U+2C1D", "U+2C1E", "U+2C1F",
     "U+2C20", "U+2C21", "U+2C22", "U+2C23", "U+2C24", "U+2C25", "U+2C26", "U+2C27", "U+2C28", "U+2C29", "U+2C2A", "U+2C2B",
     "U+2C2C", "U+2C2D", "U+2C2E", "U+2C2F", "U+2C30", "U+2C31", "U+2C32", "U+2C33", "U+2C34", "U+2C35", "U+2C36", "U+2C37",
     "U+2C38", "U+2C39", "U+2C3A", "U+2C3B", "U+2C3C", "U+2C3D", "U+2C3E", "U+2C3F", "U+2C40", "U+2C41", "U+2C42", "U+2C43",
     "U+2C44", "U+2C45", "U+2C46", "U+2C47", "U+2C48", "U+2C49", "U+2C4A", "U+2C4B", "U+2C4C", "U+2C4D", "U+2C4E", "U+2C4F",
     "U+2C50", "U+2C51", "U+2C52", "U+2C53", "U+2C54", "U+2C55", "U+2C56", "U+2C57", "U+2C58", "U+2C59", "U+2C5A", "U+2C5B",
     "U+2C5C", "U+2C5D", "U+2C5E", "U+2C5F", "U+2C60", "U+2C61", "U+2C62", "U+2C63", "U+2C64", "U+2C65", "U+2C66", "U+2C67",
     "U+2C68", "U+2C69", "U+2C6A", "U+2C6B", "U+2C6C", "U+2C6D", "U+2C6E", "U+2C6F", "U+2C70", "U+2C71", "U+2C72", "U+2C73",
     "U+2C74", "U+2C75", "U+2C76", "U+2C77", "U+2C78", "U+2C79", "U+2C7A", "U+2C7B", "U+2C7E", "U+2C7F", "Ⲁ", "ⲁ",
     "Ⲃ", "ⲃ", "Ⲅ", "ⲅ", "Ⲇ", "ⲇ", "Ⲉ", "ⲉ", "Ⲋ", "ⲋ", "Ⲍ", "ⲍ",
     "Ⲏ", "ⲏ", "Ⲑ", "ⲑ", "Ⲓ", "ⲓ", "Ⲕ", "ⲕ", "Ⲗ", "ⲗ", "Ⲙ", "ⲙ",
     "Ⲛ", "ⲛ", "Ⲝ", "ⲝ", "Ⲟ", "ⲟ", "Ⲡ", "ⲡ", "Ⲣ", "ⲣ", "Ⲥ", "ⲥ",
     "Ⲧ", "ⲧ", "Ⲩ", "ⲩ", "Ⲫ", "ⲫ", "Ⲭ", "ⲭ", "Ⲯ", "ⲯ", "Ⲱ", "ⲱ",
     "Ⲳ", "ⲳ", "Ⲵ", "ⲵ", "Ⲷ", "ⲷ", "Ⲹ", "ⲹ", "Ⲻ", "ⲻ", "Ⲽ", "ⲽ",
     "Ⲿ", "ⲿ", "Ⳁ", "ⳁ", "Ⳃ", "ⳃ", "Ⳅ", "ⳅ", "Ⳇ", "ⳇ", "Ⳉ", "ⳉ",
     "Ⳋ", "ⳋ", "Ⳍ", "ⳍ", "Ⳏ", "ⳏ", "Ⳑ", "ⳑ", "Ⳓ", "ⳓ", "Ⳕ", "ⳕ",
     "Ⳗ", "ⳗ", "Ⳙ", "ⳙ", "Ⳛ", "ⳛ", "Ⳝ", "ⳝ", "Ⳟ", "ⳟ", "Ⳡ", "ⳡ",
     "Ⳣ", "ⳣ", "ⳤ", "Ⳬ", "ⳬ", "Ⳮ", "ⳮ", "Ⳳ", "ⳳ", "U+2D00", "U+2D01", "U+2D02",
     "U+2D03", "U+2D04", "U+2D05", "U+2D06", "U+2D07", "U+2D08", "U+2D09", "U+2D0A", "U+2D0B", "U+2D0C", "U+2D0D", "U+2D0E",
     "U+2D0F", "U+2D10", "U+2D11", "U+2D12", "U+2D13", "U+2D14", "U+2D15", "U+2D16", "U+2D17", "U+2D18", "U+2D19", "U+2D1A",
     "U+2D1B", "U+2D1C", "U+2D1D", "U+2D1E", "U+2D1F", "U+2D20", "U+2D21", "U+2D22", "U+2D23", "U+2D24", "U+2D25", "U+2D27",
     "U+2D2D", "U+A640", "U+A641", "U+A642", "U+A643", "U+A644", "U+A645", "U+A646", "U+A647", "U+A648", "U+A649", "U+A64A",
     "U+A64B", "U+A64C", "U+A64D", "U+A64E", "U+A64F", "U+A650", "U+A651", "U+A652", "U+A653", "U+A654", "U+A655", "U+A656",
     "U+A657", "U+A658", "U+A659", "U+A65A", "U+A65B", "U+A65C", "U+A65D", "U+A65E", "U+A65F", "U+A660", "U+A661", "U+A662",
     "U+A663", "U+A664", "U+A665", "U+A666", "U+A667", "U+A668", "U+A669", "U+A66A", "U+A66B", "U+A66C", "U+A66D", "Ꚁ",
     "ꚁ", "Ꚃ", "ꚃ", "Ꚅ", "ꚅ", "Ꚇ", "ꚇ", "Ꚉ", "ꚉ", "Ꚋ", "ꚋ", "Ꚍ",
     "ꚍ", "Ꚏ", "ꚏ", "Ꚑ", "ꚑ", "Ꚓ", "ꚓ", "Ꚕ", "ꚕ", "Ꚗ", "ꚗ", "Ꚙ",
     "ꚙ", "Ꚛ", "ꚛ", "U+A722", "U+A723", "U+A724", "U+A725", "U+A726", "U+A727", "U+A728", "U+A729", "U+A72A",
     "U+A72B", "U+A72C", "U+A72D", "U+A72E", "U+A72F", "U+A730", "U+A731", "U+A732", "U+A733", "U+A734", "U+A735", "U+A736",
     "U+A737", "U+A738", "U+A739", "U+A73A", "U+A73B", "U+A73C", "U+A73D", "U+A73E", "U+A73F", "U+A740", "U+A741", "U+A742",
     "U+A743", "U+A744", "U+A745", "U+A746", "U+A747", "U+A748", "U+A749", "U+A74A", "U+A74B", "U+A74C", "U+A74D", "U+A74E",
     "U+A74F", "U+A750", "U+A751", "U+A752", "U+A753", "U+A754", "U+A755", "U+A756", "U+A757", "U+A758", "U+A759", "U+A75A",
     "U+A75B", "U+A75C", "U+A75D", "U+A75E", "U+A75F", "U+A760", "U+A761", "U+A762", "U+A763", "U+A764", "U+A765", "U+A766",
     "U+A767", "U+A768", "U+A769", "U+A76A", "U+A76B", "U+A76C", "U+A76D", "U+A76E", "U+A76F", "U+A771", "U+A772", "U+A773",
     "U+A774", "U+A775", "U+A776", "U+A777", "U+A778", "U+A779", "U+A77A", "U+A77B", "U+A77C", "U+A77D", "U+A77E", "U+A77F",
     "Ꞁ", "ꞁ", "Ꞃ", "ꞃ", "Ꞅ", "ꞅ", "Ꞇ", "ꞇ", "Ꞌ", "ꞌ", "Ɥ", "ꞎ",
     "Ꞑ", "ꞑ", "Ꞓ", "ꞓ", "ꞔ", "ꞕ", "Ꞗ", "ꞗ", "Ꞙ", "ꞙ", "Ꞛ", "ꞛ",
     "Ꞝ", "ꞝ", "Ꞟ", "ꞟ", "Ꞡ", "ꞡ", "Ꞣ", "ꞣ", "Ꞥ", "ꞥ", "Ꞧ", "ꞧ",
     "Ꞩ", "ꞩ", "Ɦ", "Ɜ", "Ɡ", "Ɬ", "Ɪ", "ꞯ", "Ʞ", "Ʇ", "Ʝ", "Ꭓ",
     "Ꞵ", "ꞵ", "Ꞷ", "ꞷ", "Ꞹ", "ꞹ", "Ꞻ", "ꞻ", "Ꞽ", "ꞽ", "Ꞿ", "ꞿ",
     "Ꟁ", "ꟁ", "Ꟃ", "ꟃ", "Ꞔ", "Ʂ", "Ᶎ", "Ꟈ", "ꟈ", "Ꟊ", "ꟊ", "Ɤ",
     "Ꟍ", "ꟍ", "꟎", "꟏", "Ꟑ", "ꟑ", "꟒", "ꟓ", "꟔", "ꟕ", "Ꟗ", "ꟗ",
     "Ꟙ", "ꟙ", "Ꟛ", "ꟛ", "Ƛ", "Ꟶ", "ꟶ", "ꟺ", "U+AB30", "U+AB31", "U+AB32", "U+AB33",
     "U+AB34", "U+AB35", "U+AB36", "U+AB37", "U+AB38", "U+AB39", "U+AB3A", "U+AB3B", "U+AB3C", "U+AB3D", "U+AB3E", "U+AB3F",
     "U+AB40", "U+AB41", "U+AB42", "U+AB43", "U+AB44", "U+AB45", "U+AB46", "U+AB47", "U+AB48", "U+AB49", "U+AB4A", "U+AB4B",
     "U+AB4C", "U+AB4D", "U+AB4E", "U+AB4F", "U+AB50", "U+AB51", "U+AB52", "U+AB53", "U+AB54", "U+AB55", "U+AB56", "U+AB57",
     "U+AB58", "U+AB59", "U+AB5A", "U+AB60", "U+AB61", "U+AB62", "U+AB63", "U+AB64", "U+AB65", "U+AB66", "U+AB67", "U+AB68",
     "U+AB70", "U+AB71", "U+AB72", "U+AB73", "U+AB74", "U+AB75", "U+AB76", "U+AB77", "U+AB78", "U+AB79", "U+AB7A", "U+AB7B",
     "U+AB7C", "U+AB7D", "U+AB7E", "U+AB7F", "ꮀ", "ꮁ", "ꮂ", "ꮃ", "ꮄ", "ꮅ", "ꮆ", "ꮇ",
     "ꮈ", "ꮉ", "ꮊ", "ꮋ", "ꮌ", "ꮍ", "ꮎ", "ꮏ", "ꮐ", "ꮑ", "ꮒ", "ꮓ",
     "ꮔ", "ꮕ", "ꮖ", "ꮗ", "ꮘ", "ꮙ", "ꮚ", "ꮛ", "ꮜ", "ꮝ", "ꮞ", "ꮟ",
     "ꮠ", "ꮡ", "ꮢ", "ꮣ", "ꮤ", "ꮥ", "ꮦ", "ꮧ", "ꮨ", "ꮩ", "ꮪ", "ꮫ",
     "ꮬ", "ꮭ", "ꮮ", "ꮯ", "ꮰ", "ꮱ", "ꮲ", "ꮳ", "ꮴ", "ꮵ", "ꮶ", "ꮷ",
     "ꮸ", "ꮹ", "ꮺ", "ꮻ", "ꮼ", "ꮽ", "ꮾ", "ꮿ", "U+FB00", "U+FB01", "U+FB02", "U+FB03",
     "U+FB04", "U+FB05", "U+FB06", "U+FB13", "U+FB14", "U+FB15", "U+FB16", "U+FB17", "U+FF21", "U+FF22", "U+FF23", "U+FF24",
     "U+FF25", "U+FF26", "U+FF27", "U+FF28", "U+FF29", "U+FF2A", "U+FF2B", "U+FF2C", "U+FF2D", "U+FF2E", "U+FF2F", "U+FF30",
     "U+FF31", "U+FF32", "U+FF33", "U+FF34", "U+FF35", "U+FF36", "U+FF37", "U+FF38", "U+FF39", "U+FF3A", "U+FF41", "U+FF42",
     "U+FF43", "U+FF44", "U+FF45", "U+FF46", "U+FF47", "U+FF48", "U+FF49", "U+FF4A", "U+FF4B", "U+FF4C", "U+FF4D", "U+FF4E",
     "U+FF4F", "U+FF50", "U+FF51", "U+FF52", "U+FF53", "U+FF54", "U+FF55", "U+FF56", "U+FF57", "U+FF58", "U+FF59", "U+FF5A"}

CaseIgnorable ==
    {"'", ".", ":", "^", "U+0060", "¨", "­", "¯", "´", "·", "¸", "ʰ",
     "ʱ", "ʲ", "ʳ", "ʴ", "ʵ", "ʶ", "ʷ", "ʸ", "ʹ", "ʺ", "ʻ", "ʼ",
     "ʽ", "ʾ", "ʿ", "ˀ", "ˁ", "˂", "˃", "˄", "˅", "ˆ", "ˇ", "ˈ",
     "ˉ", "ˊ", "ˋ", "ˌ", "ˍ", "ˎ", "ˏ", "ː", "ˑ", "˒", "˓", "˔",
     "˕", "˖", "˗", "˘", "˙", "˚", "˛", "˜", "˝", "˞", "˟", "ˠ",
     "ˡ", "ˢ", "ˣ", "ˤ", "˥", "˦", "˧", "˨", "˩", "˪", "˫", "ˬ",
     "˭", "ˮ", "˯", "˰", "˱", "˲", "˳", "˴", "˵", "˶", "˷", "˸",
     "˹", "˺", "˻", "˼", "˽", "˾", "˿", "U+0300", "U+0301", "U+0302", "U+0303", "U+0304",
     "U+0305", "U+0306", "U+0307", "U+0308", "U+0309", "U+030A", "U+030B", "U+030C", "U+030D", "U+030E", "U+030F", "U+0310",
     "U+0311", "U+0312", "U+0313", "U+0314", "U+0315", "U+0316", "U+0317", "U+0318", "U+0319", "U+031A", "U+031B", "U+031C",
     "U+031D", "U+031E", "U+031F", "U+0320", "U+0321", "U+0322", "U+0323", "U+0324", "U+0325", "U+0326", "U+0327", "U+0328",
     "U+0329", "U+032A", "U+032B", "U+032C", "U+032D", "U+032E", "U+032F", "U+0330", "U+0331", "U+0332", "U+0333", "U+0334",
     "U+0335", "U+0336", "U+0337", "U+0338", "U+0339", "U+033A", "U+033B", "U+033C", "U+033D", "U+033E", "U+033F", "U+0340",
     "U+0341", "U+0342", "U+0343", "U+0344", "U+0345", "U+0346", "U+0347", "U+0348", "U+0349", "U+034A", "U+034B", "U+034C",
     "U+034D", "U+034E", "U+034F", "U+0350", "U+0351", "U+0352", "U+0353", "U+0354", "U+0355", "U+0356", "U+0357", "U+0358",
     "U+0359", "U+035A", "U+035B", "U+035C", "U+035D", "U+035E", "U+035F", "U+0360", "U+0361", "U+0362", "U+0363", "U+0364",
     "U+0365", "U+0366", "U+0367", "U+0368", "U+0369", "U+036A", "U+036B", "U+036C", "U+036D", "U+036E", "U+036F", "U+0374",
     "U+0375", "U+037A", "΄", "΅", "·", "҃", "҄", "҅", "҆", "҇", "҈", "҉",
     "U+0559", "U+055F", "֑", "֒", "֓", "֔", "֕", "֖", "֗", "֘", "֙", "֚",
     "֛", "֜", "֝", "֞", "֟", "֠", "֡", "֢", "֣", "֤", "֥", "֦",
     "֧", "֨", "֩", "֪", "֫", "֬", "֭", "֮", "֯", "ְ", "ֱ", "ֲ",
     "ֳ", "ִ", "ֵ", "ֶ", "ַ", "ָ", "ֹ", "ֺ", "ֻ", "ּ", "ֽ", "ֿ",
     "ׁ", "ׂ", "ׄ", "ׅ", "ׇ", "״", "U+0600", "U+0601", "U+0602", "U+0603", "U+0604", "U+0605",
     "U+0610", "U+0611", "U+0612", "U+0613", "U+0614", "U+0615", "U+0616", "U+0617", "U+0618", "U+0619", "U+061A", "U+061C",
     "U+0640", "U+064B", "U+064C", "U+064D", "U+064E", "U+064F", "U+0650", "U+0651", "U+0652", "U+0653", "U+0654", "U+0655",
     "U+0656", "U+0657", "U+0658", "U+0659", "U+065A", "U+065B", "U+065C", "U+065D", "U+065E", "U+065F", "U+0670", "ۖ",
     "ۗ", "ۘ", "ۙ", "ۚ", "ۛ", "ۜ", "۝", "۟", "۠", "ۡ", "ۢ", "ۣ",
     "ۤ", "ۥ", "ۦ", "ۧ", "ۨ", "۪", "۫", "۬", "ۭ", "U+070F", "U+0711", "U+0730",
     "U+0731", "U+0732", "U+0733", "U+0734", "U+0735", "U+0736", "U+0737", "U+0738", "U+0739", "U+073A", "U+073B", "U+073C",
     "U+073D", "U+073E", "U+073F", "U+0740", "U+0741", "U+0742", "U+0743", "U+0744", "U+0745", "U+0746", "U+0747", "U+0748",
     "U+0749", "U+074A", "ަ", "ާ", "ި", "ީ", "ު", "ޫ", "ެ", "ޭ", "ޮ", "ޯ",
     "ް", "߫", "߬", "߭", "߮", "߯", "߰", "߱", "߲", "߳", "ߴ", "ߵ",
     "ߺ", "߽", "U+0816", "U+0817", "U+0818", "U+0819", "U+081A", "U+081B", "U+081C", "U+081D", "U+081E", "U+081F",
     "U+0820", "U+0821", "U+0822", "U+0823", "U+0824", "U+0825", "U+0826", "U+0827", "U+0828", "U+0829", "U+082A", "U+082B",
     "U+082C", "U+082D", "U+0859", "U+085A", "U+085B", "࢈", "࢐", "࢑", "ࢗ", "࢘", "࢙", "࢚",
     "࢛", "࢜", "࢝", "࢞", "࢟", "ࣉ", "࣊", "࣋", "࣌", "࣍", "࣎", "࣏",
     "࣐", "࣑", "࣒", "࣓", "ࣔ", "ࣕ", "ࣖ", "ࣗ", "ࣘ", "ࣙ", "ࣚ", "ࣛ",
     "ࣜ", "ࣝ", "ࣞ", "ࣟ", "࣠", "࣡", "࣢", "ࣣ", "ࣤ", "ࣥ", "ࣦ", "ࣧ",
     "ࣨ", "ࣩ", "࣪", "࣫", "࣬", "࣭", "࣮", "࣯", "ࣰ", "ࣱ", "ࣲ", "ࣳ",
     "ࣴ", "ࣵ", "ࣶ", "ࣷ", "ࣸ", "ࣹ", "ࣺ", "ࣻ", "ࣼ", "ࣽ", "ࣾ", "ࣿ",
     "U+0900", "U+0901", "U+0902", "U+093A", "U+093C", "U+0941", "U+0942", "U+0943", "U+0944", "U+0945", "U+0946", "U+0947",
     "U+0948", "U+094D", "U+0951", "U+0952", "U+0953", "U+0954", "U+0955", "U+0956", "U+0957", "U+0962", "U+0963", "U+0971",
     "ঁ", "়", "ু", "ূ", "ৃ", "ৄ", "্", "ৢ", "ৣ", "৾", "U+0A01", "U+0A02",
     "U+0A3C", "U+0A41", "U+0A42", "U+0A47", "U+0A48", "U+0A4B", "U+0A4C", "U+0A4D", "U+0A51", "U+0A70", "U+0A71", "U+0A75",
     "ઁ", "ં", "઼", "ુ", "ૂ", "ૃ", "ૄ", "ૅ", "ે", "ૈ", "્", "ૢ",
     "ૣ", "ૺ", "ૻ", "ૼ", "૽", "૾", "૿", "U+0B01", "U+0B3C", "U+0B3F", "U+0B41", "U+0B42",
     "U+0B43", "U+0B44", "U+0B4D", "U+0B55", "U+0B56", "U+0B62", "U+0B63", "ஂ", "ீ", "்", "U+0C00", "U+0C04",
     "U+0C3C", "U+0C3E", "U+0C3F", "U+0C40", "U+0C46", "U+0C47", "U+0C48", "U+0C4A", "U+0C4B", "U+0C4C", "U+0C4D", "U+0C55",
     "U+0C56", "U+0C62", "U+0C63", "ಁ", "಼", "ಿ", "ೆ", "ೌ", "್", "ೢ", "ೣ", "U+0D00",
     "U+0D01", "U+0D3B", "U+0D3C", "U+0D41", "U+0D42", "U+0D43", "U+0D44", "U+0D4D", "U+0D62", "U+0D63", "ඁ", "්",
     "ි", "ී", "ු", "ූ", "U+0E31", "U+0E34", "U+0E35", "U+0E36", "U+0E37", "U+0E38", "U+0E39", "U+0E3A",
     "U+0E46", "U+0E47", "U+0E48", "U+0E49", "U+0E4A", "U+0E4B", "U+0E4C", "U+0E4D", "U+0E4E", "ັ", "ິ", "ີ",
     "ຶ", "ື", "ຸ", "ູ", "຺", "ົ", "ຼ", "ໆ", "່", "້", "໊", "໋",
     "໌", "ໍ", "໎", "U+0F18", "U+0F19", "U+0F35", "U+0F37", "U+0F39", "U+0F71", "U+0F72", "U+0F73", "U+0F74",
     "U+0F75", "U+0F76", "U+0F77", "U+0F78", "U+0F79", "U+0F7A", "U+0F7B", "U+0F7C", "U+0F7D", "U+0F7E", "ྀ", "ཱྀ",
     "ྂ", "ྃ", "྄", "྆", "྇", "ྍ", "ྎ", "ྏ", "ྐ", "ྑ", "ྒ", "ྒྷ",
     "ྔ", "ྕ", "ྖ", "ྗ", "ྙ", "ྚ", "ྛ", "ྜ", "ྜྷ", "ྞ", "ྟ", "ྠ",
     "ྡ", "ྡྷ", "ྣ", "ྤ", "ྥ", "ྦ", "ྦྷ", "ྨ", "ྩ", "ྪ", "ྫ", "ྫྷ",
     "ྭ", "ྮ", "ྯ", "ྰ", "ྱ", "ྲ", "ླ", "ྴ", "ྵ", "ྶ", "ྷ", "ྸ",
     "ྐྵ", "ྺ", "ྻ", "ྼ", "࿆", "U+102D", "U+102E", "U+102F", "U+1030", "U+1032", "U+1033", "U+1034",
     "U+1035", "U+1036", "U+1037", "U+1039", "U+103A", "U+103D", "U+103E", "U+1058", "U+1059", "U+105E", "U+105F", "U+1060",
     "U+1071", "U+1072", "U+1073", "U+1074", "ႂ", "ႅ", "ႆ", "ႍ", "ႝ", "ჼ", "U+135D", "U+135E",
     "U+135F", "U+1712", "U+1713", "U+1714", "U+1732", "U+1733", "U+1752", "U+1753", "U+1772", "U+1773", "឴", "឵",
     "ិ", "ី", "ឹ", "ឺ", "ុ", "ូ", "ួ", "ំ", "៉", "៊", "់", "៌",
     "៍", "៎", "៏", "័", "៑", "្", "៓", "ៗ", "៝", "U+180B", "U+180C", "U+180D",
     "U+180E", "U+180F", "U+1843", "ᢅ", "ᢆ", "ᢩ", "U+1920", "U+1921", "U+1922", "U+1927", "U+1928", "U+1932",
     "U+1939", "U+193A", "U+193B", "U+1A17", "U+1A18", "U+1A1B", "U+1A56", "U+1A58", "U+1A59", "U+1A5A", "U+1A5B", "U+1A5C",
     "U+1A5D", "U+1A5E", "U+1A60", "U+1A62", "U+1A65", "U+1A66", "U+1A67", "U+1A68", "U+1A69", "U+1A6A", "U+1A6B", "U+1A6C",
     "U+1A73", "U+1A74", "U+1A75", "U+1A76", "U+1A77", "U+1A78", "U+1A79", "U+1A7A", "U+1A7B", "U+1A7C", "U+1A7F", "ᪧ",
     "᪰", "᪱", "᪲", "᪳", "᪴", "᪵", "᪶", "᪷", "᪸", "᪹", "᪺", "᪻",
     "᪼", "᪽", "᪾", "ᪿ", "ᫀ", "᫁", "᫂", "᫃", "᫄", "᫅", "᫆", "᫇",
     "᫈", "᫉", "᫊", "᫋", "ᫌ", "ᫍ", "ᫎ", "᫏", "᫐", "᫑", "᫒", "᫓",
     "᫔", "᫕", "᫖", "᫗", "᫘", "᫙", "᫚", "᫛", "᫜", "᫝", "᫠", "᫡",
     "᫢", "᫣", "᫤", "᫥", "᫦", "᫧", "᫨", "᫩", "᫪", "᫫", "U+1B00", "U+1B01",
     "U+1B02", "U+1B03", "U+1B34", "U+1B36", "U+1B37", "U+1B38", "U+1B39", "U+1B3A", "U+1B3C", "U+1B42", "U+1B6B", "U+1B6C",
     "U+1B6D", "U+1B6E", "U+1B6F", "U+1B70", "U+1B71", "U+1B72", "U+1B73", "ᮀ", "ᮁ", "ᮢ", "ᮣ", "ᮤ",
     "ᮥ", "ᮨ", "ᮩ", "᮫", "ᮬ", "ᮭ", "᯦", "ᯨ", "ᯩ", "ᯭ", "ᯯ", "ᯰ",
     "ᯱ", "U+1C2C", "U+1C2D", "U+1C2E", "U+1C2F", "U+1C30", "U+1C31", "U+1C32", "U+1C33", "U+1C36", "U+1C37", "U+1C78",
     "U+1C79", "U+1C7A", "U+1C7B", "U+1C7C", "U+1C7D", "᳐", "᳑", "᳒", "᳔", "᳕", "᳖", "᳗",
     "᳘", "᳙", "᳚", "᳛", "᳜", "᳝", "᳞", "᳟", "᳠", "᳢", "᳣", "᳤",
     "᳥", "᳦", "᳧", "᳨", "᳭", "᳴", "᳸", "᳹", "U+1D2C", "U+1D2D", "U+1D2E", "U+1D2F",
     "U+1D30", "U+1D31", "U+1D32", "U+1D33", "U+1D34", "U+1D35", "U+1D36", "U+1D37", "U+1D38", "U+1D39", "U+1D3A", "U+1D3B",
     "U+1D3C", "U+1D3D", "U+1D3E", "U+1D3F", "U+1D40", "U+1D41", "U+1D42", "U+1D43", "U+1D44", "U+1D45", "U+1D46", "U+1D47",
     "U+1D48", "U+1D49", "U+1D4A", "U+1D4B", "U+1D4C", "U+1D4D", "U+1D4E", "U+1D4F", "U+1D50", "U+1D51", "U+1D52", "U+1D53",
     "U+1D54", "U+1D55", "U+1D56", "U+1D57", "U+1D58", "U+1D59", "U+1D5A", "U+1D5B", "U+1D5C", "U+1D5D", "U+1D5E", "U+1D5F",
     "U+1D60", "U+1D61", "U+1D62", "U+1D63", "U+1D64", "U+1D65", "U+1D66", "U+1D67", "U+1D68", "U+1D69", "U+1D6A", "U+1D78",
     "ᶛ", "ᶜ", "ᶝ", "ᶞ", "ᶟ", "ᶠ", "ᶡ", "ᶢ", "ᶣ", "ᶤ", "ᶥ", "ᶦ",
     "ᶧ", "ᶨ", "ᶩ", "ᶪ", "ᶫ", "ᶬ", "ᶭ", "ᶮ", "ᶯ", "ᶰ", "ᶱ", "ᶲ",
     "ᶳ", "ᶴ", "ᶵ", "ᶶ", "ᶷ", "ᶸ", "ᶹ", "ᶺ", "ᶻ", "ᶼ", "ᶽ", "ᶾ",
     "ᶿ", "᷀", "᷁", "᷂", "᷃", "᷄", "᷅", "᷆", "᷇", "᷈", "᷉", "᷊",
     "᷋", "᷌", "᷍", "᷎", "᷏", "᷐", "᷑", "᷒", "ᷓ", "ᷔ", "ᷕ", "ᷖ",
     "ᷗ", "ᷘ", "ᷙ", "ᷚ", "ᷛ", "ᷜ", "ᷝ", "ᷞ", "ᷟ", "ᷠ", "ᷡ", "ᷢ",
     "ᷣ", "ᷤ", "ᷥ", "ᷦ", "ᷧ", "ᷨ", "ᷩ", "ᷪ", "ᷫ", "ᷬ", "ᷭ", "ᷮ",
     "ᷯ", "ᷰ", "ᷱ", "ᷲ", "ᷳ", "ᷴ", "᷵", "᷶", "᷷", "᷸", "᷹", "᷺",
     "᷻", "᷼", "᷽", "᷾", "᷿", "᾽", "᾿", "῀", "῁", "῍", "῎", "῏",
     "῝", "῞", "῟", "῭", "΅", "`", "´", "῾", "U+200B", "U+200C", "U+200D", "U+200E",
     "U+200F", "U+2018", "U+2019", "U+2024", "U+2027", "U+202A", "U+202B", "U+202C", "U+202D", "U+202E", "U+2060", "U+2061",
     "U+2062", "U+2063", "U+2064", "U+2066", "U+2067", "U+2068", "U+2069", "U+206A", "U+206B", "U+206C", "U+206D", "U+206E",
     "U+206F", "U+2071", "U+207F", "ₐ", "ₑ", "ₒ", "ₓ", "ₔ", "ₕ", "ₖ", "ₗ", "ₘ",
     "ₙ", "ₚ", "ₛ", "ₜ", "⃐", "⃑", "⃒", "⃓", "⃔", "⃕", "⃖", "⃗",
     "⃘", "⃙", "⃚", "⃛", "⃜", "⃝", "⃞", "⃟", "⃠", "⃡", "⃢", "⃣",
     "⃤", "⃥", "⃦", "⃧", "⃨", "⃩", "⃪", "⃫", "⃬", "⃭", "⃮", "⃯",
     "⃰", "U+2C7C", "U+2C7D", "⳯", "⳰", "⳱", "U+2D6F", "U+2D7F", "ⷠ", "ⷡ", "ⷢ", "ⷣ",
     "ⷤ", "ⷥ", "ⷦ", "ⷧ", "ⷨ", "ⷩ", "ⷪ", "ⷫ", "ⷬ", "ⷭ", "ⷮ", "ⷯ",
     "ⷰ", "ⷱ", "ⷲ", "ⷳ", "ⷴ", "ⷵ", "ⷶ", "ⷷ", "ⷸ", "ⷹ", "ⷺ", "ⷻ",
     "ⷼ", "ⷽ", "ⷾ", "ⷿ", "U+2E2F", "U+3005", "U+302A", "U+302B", "U+302C", "U+302D", "U+3031", "U+3032",
     "U+3033", "U+3034", "U+3035", "U+303B", "゙", "゚", "゛", "゜", "ゝ", "ゞ", "ー", "ヽ",
     "ヾ", "U+A015", "ꓸ", "ꓹ", "ꓺ", "ꓻ", "ꓼ", "ꓽ", "U+A60C", "U+A66F", "U+A670", "U+A671",
     "U+A672", "U+A674", "U+A675", "U+A676", "U+A677", "U+A678", "U+A679", "U+A67A", "U+A67B", "U+A67C", "U+A67D", "U+A67F",
     "ꚜ", "ꚝ", "ꚞ", "ꚟ", "꛰", "꛱", "U+A700", "U+A701", "U+A702", "U+A703", "U+A704", "U+A705",
     "U+A706", "U+A707", "U+A708", "U+A709", "U+A70A", "U+A70B", "U+A70C", "U+A70D", "U+A70E", "U+A70F", "U+A710", "U+A711",
     "U+A712", "U+A713", "U+A714", "U+A715", "U+A716", "U+A717", "U+A718", "U+A719", "U+A71A", "U+A71B", "U+A71C", "U+A71D",
     "U+A71E", "U+A71F", "U+A720", "U+A721", "U+A770", "ꞈ", "꞉", "꞊", "꟱", "ꟲ", "ꟳ", "ꟴ",
     "ꟸ", "ꟹ", "U+A802", "U+A806", "U+A80B", "U+A825", "U+A826", "U+A82C", "꣄", "ꣅ", "꣠", "꣡",
     "꣢", "꣣", "꣤", "꣥", "꣦", "꣧", "꣨", "꣩", "꣪", "꣫", "꣬", "꣭",
     "꣮", "꣯", "꣰", "꣱", "ꣿ", "U+A926", "U+A927", "U+A928", "U+A929", "U+A92A", "U+A92B", "U+A92C",
     "U+A92D", "U+A947", "U+A948", "U+A949", "U+A94A", "U+A94B", "U+A94C", "U+A94D", "U+A94E", "U+A94F", "U+A950", "U+A951",
     "ꦀ", "ꦁ", "ꦂ", "꦳", "ꦶ", "ꦷ", "ꦸ", "ꦹ", "ꦼ", "ꦽ", "ꧏ", "ꧥ",
     "ꧦ", "U+AA29", "U+AA2A", "U+AA2B", "U+AA2C", "U+AA2D", "U+AA2E", "U+AA31", "U+AA32", "U+AA35", "U+AA36", "U+AA43",
     "U+AA4C", "U+AA70", "U+AA7C", "ꪰ", "ꪲ", "ꪳ", "ꪴ", "ꪷ", "ꪸ", "ꪾ", "꪿", "꫁",
     "ꫝ", "ꫬ", "ꫭ", "ꫳ", "ꫴ", "꫶", "U+AB5B", "U+AB5C", "U+AB5D", "U+AB5E", "U+AB5F", "U+AB69",
     "U+AB6A", "U+AB6B", "ꯥ", "ꯨ", "꯭", "U+FB1E", "﮲", "﮳", "﮴", "﮵", "﮶", "﮷",
     "﮸", "﮹", "﮺", "﮻", "﮼", "﮽", "﮾", "﮿", "﯀", "﯁", "﯂", "U+FE00",
     "U+FE01", "U+FE02", "U+FE03", "U+FE04", "U+FE05", "U+FE06", "U+FE07", "U+FE08", "U+FE09", "U+FE0A", "U+FE0B", "U+FE0C",
     "U+FE0D", "U+FE0E", "U+FE0F", "U+FE13", "U+FE20", "U+FE21", "U+FE22", "U+FE23", "U+FE24", "U+FE25", "U+FE26", "U+FE27",
     "U+FE28", "U+FE29", "U+FE2A", "U+FE2B", "U+FE2C", "U+FE2D", "U+FE2E", "U+FE2F", "U+FE52", "U+FE55", "﻿", "U+FF07",
     "U+FF0E", "U+FF1A", "U+FF3E", "U+FF40", "U+FF70", "ﾞ", "ﾟ", "￣", "￹", "￺", "￻"}

\* String.prototype.toLowerCase, one character out of context.
LowerChar(c) ==
    IF IsUpper(c) THEN LowerChars[CHOOSE i \in 1..Len(UpperChars) : UpperChars[i] = c]
    ELSE IF c \in UpperLetterSet
    THEN LowerLetters[CHOOSE i \in 1..Len(UpperLetters) : UpperLetters[i] = c]
    ELSE c

\* Final_Sigma: the capital sigma at i comes after a cased letter and is
\* not before one, case-ignorable characters in between being skipped.
FinalSigma(s, i) ==
    /\ \E j \in 1..(i - 1) :
          s[j] \in CasedLetters /\ \A k \in (j + 1)..(i - 1) : s[k] \in CaseIgnorable
    /\ ~\E j \in (i + 1)..Len(s) :
          s[j] \in CasedLetters /\ \A k \in (i + 1)..(j - 1) : s[k] \in CaseIgnorable

\* U+0130, the capital I with a dot above, as i and the combining dot above,
\* which is what toLowerCase makes of it.
RECURSIVE dotted(_)
dotted(s) ==
    IF s = <<>> THEN <<>>
    ELSE (IF Head(s) = "U+0130" THEN <<"i", "U+0307">> ELSE <<Head(s)>>) \o dotted(Tail(s))

\* String.prototype.toLowerCase on a string without U+0130.
lowerCased(s) ==
    [i \in 1..Len(s) |->
        IF s[i] = "Σ" /\ FinalSigma(s, i) THEN "ς" ELSE LowerChar(s[i])]

\* String.prototype.toLowerCase: the lower case of every character, a final
\* capital sigma becoming the final small sigma.
toLowerCase(s) ==
    IF "U+0130" \in Range(s) THEN Apply(lowerCased, dotted(s)) ELSE lowerCased(s)

\* The characters of s at the indexes that keep holds, in order.
charsAt(s, keep(_)) ==
    Apply(LAMBDA kept : [k \in 1..Len(kept) |-> s[kept[k]]],
          SelectSeq([i \in 1..Len(s) |-> i], keep))

\* String.prototype.trimStart
trimStart(s) ==
    LET rest == { i \in 1..Len(s) : ~IsSpace(s[i]) }
    IN IF rest = {} THEN <<>>
       ELSE SubSeq(s, CHOOSE i \in rest : \A j \in rest : i <= j, Len(s))

\* String.prototype.trimEnd
trimEnd(s) ==
    LET rest == { i \in 1..Len(s) : ~IsSpace(s[i]) }
    IN IF rest = {} THEN <<>>
       ELSE SubSeq(s, 1, CHOOSE i \in rest : \A j \in rest : i >= j)

\* String.prototype.trim
trim(s) == Apply(trimEnd, trimStart(s))

\* s.replace(/\s+/g, ' '): every maximal run of whitespace becomes one space,
\* which stands where the run began.
collapseSpaces(s) ==
    Apply(LAMBDA kept : [k \in 1..Len(kept) |-> IF IsSpace(kept[k]) THEN " " ELSE kept[k]],
          charsAt(s, LAMBDA i : ~IsSpace(s[i]) \/ i = 1 \/ ~IsSpace(s[i - 1])))

\* a.includes(b)
includes(a, b) == \E i \in 1..(Len(a) - Len(b) + 1) : SubSeq(a, i, i + Len(b) - 1) = b

-----------------------------------------------------------------------------
(* JavaScript numbers: IEEE 754 doubles.                                   *)
(*                                                                         *)
(* A finite double is <<s, hi, lo, e>>: the number                         *)
(* s * (hi * 2^28 + lo) * 2^e with s in {-1, 1}, 0 <= lo < 2^28 and        *)
(* -1074 <= e <= 971.  The significand hi * 2^28 + lo of a normal double   *)
(* is in [2^52, 2^53); that of a subnormal one is below 2^52 and its e is  *)
(* -1074.  Zero is <<0, 0, 0, 0>> (0 and -0 are one number here: the code  *)
(* tells them apart nowhere), Infinity and -Infinity are <<1, 0, 0, 1024>> *)
(* and <<-1, 0, 0, 1024>>, and NaN is <<0, 0, 0, 1024>>.  The operations   *)
(* round once, to nearest, ties to even, as the + - * / of JavaScript do:  *)
(* a result below the normal range loses its low bits (gradual underflow)  *)
(* and one beyond Number.MAX_VALUE is Infinity.                            *)

\* 2^k for 0 <= k <= 30
Pow2(k) == 2 ^ k

Two28 == Pow2(28)

Two14 == Pow2(14)

DblZero == <<0, 0, 0, 0>>

DblNaN == <<0, 0, 0, 1024>>

DblInfinity(s) == <<s, 0, 0, 1024>>

\* Natural numbers below 2^58 as <<hi, lo>>: hi * 2^28 + lo.
bigLess(a, b) == a[1] < b[1] \/ (a[1] = b[1] /\ a[2] < b[2])

bigAdd(a, b) ==
    IF a[2] + b[2] >= Two28 THEN <<a[1] + b[1] + 1, a[2] + b[2] - Two28>>
    ELSE <<a[1] + b[1], a[2] + b[2]>>

\* a - b for a >= b
bigSub(a, b) ==
    IF a[2] >= b[2] THEN <<a[1] - b[1], a[2] - b[2]>>
    ELSE <<a[1] - b[1] - 1, a[2] + Two28 - b[2]>>

\* a + 1
bigSucc(a) == IF a[2] + 1 = Two28 THEN <<a[1] + 1, 0>> ELSE <<a[1], a[2] + 1>>

\* floor(a / 2^k) for k >= 0, with a last bit of 1 where a bit of a was
\* lost (the sticky bit).
bigShiftRight(a, k) ==
    IF k = 0 THEN a
    ELSE IF k < 28
    THEN LET lo == (a[1] % Pow2(k)) * Pow2(28 - k) + a[2] \div Pow2(k)
             lost == a[2] % Pow2(k) # 0
         IN <<a[1] \div Pow2(k), IF lost /\ lo % 2 = 0 THEN lo + 1 ELSE lo>>
    ELSE IF k < 57
    THEN LET lo == a[1] \div Pow2(k - 28)
             lost == a[1] % Pow2(k - 28) # 0 \/ a[2] # 0
         IN <<0, IF lost /\ lo % 2 = 0 THEN lo + 1 ELSE lo>>
    ELSE <<0, IF a = <<0, 0>> THEN 0 ELSE 1>>

\* a * 2^k for 0 <= k <= 27 and a * 2^k < 2^58
bigShiftLeft(a, k) ==
    <<a[1] * Pow2(k) + a[2] \div Pow2(28 - k), (a[2] % Pow2(28 - k)) * Pow2(k)>>

\* The number of bits of n, 1 <= n < 2^31.
bitLength(n) == CHOOSE k \in 1..31 : n \div Pow2(k - 1) = 1

\* The double that holds the whole number n, -2^31 < n < 2^31.
dblOfInt(n) ==
    IF n = 0 THEN DblZero
    ELSE LET a == IF n < 0 THEN -n ELSE n
             k == bitLength(a)
         IN IF k <= 25
            THEN <<IF n < 0 THEN -1 ELSE 1, a * Pow2(25 - k), 0, k - 53>>
            ELSE <<IF n < 0 THEN -1 ELSE 1, a \div Pow2(k - 25),
                   (a % Pow2(k - 25)) * Pow2(53 - k), k - 53>>

\* The significand q with one more, carried into the exponent where it
\* reaches 2^53.
roundedUp(s, q, e) ==
    IF bigSucc(q) = <<Pow2(25), 0>> THEN <<s, Pow2(24), 0, e + 1>>
    ELSE <<s>> \o bigSucc(q) \o <<e>>

\* a * 2^e with 0 < a < 2^56 brought to 2^55 <= a < 2^56: <<a, e>>.
normLeft(a, e) ==
    IF a[1] = 0
    THEN LET k == 28 - bitLength(a[2])
         IN <<bigShiftLeft(<<a[2], 0>>, k), e - 28 - k>>
    ELSE LET k == 28 - bitLength(a[1])
         IN <<bigShiftLeft(a, k), e - k>>

\* The 56 bits of a (2^55 <= a < 2^56) as <<the upper 53, the lower 3>>.
split53(a) == <<<<a[1] \div 8, (a[1] % 8) * Pow2(25) + a[2] \div 8>>, a[2] % 8>>

\* The one rounding of an operation: the double nearest to
\* s * (q + g / 8) * 2^e, for a significand q in [2^52, 2^53) and the three
\* bits g below it, the last of which is set where lower bits were lost.
\* Below 2^-1074 the significand is first shifted down to the exponent
\* -1074, which makes the result subnormal or 0; a result beyond
\* Number.MAX_VALUE is Infinity.
dblPack(s, q, g, e) ==
    IF e >= -1074
    THEN LET r == IF g > 4 \/ (g = 4 /\ q[2] % 2 = 1) THEN roundedUp(s, q, e)
                  ELSE <<s, q[1], q[2], e>>
         IN IF r[4] > 971 THEN DblInfinity(s) ELSE r
    ELSE LET down == split53(bigShiftRight(
                         <<q[1] * 8 + q[2] \div Pow2(25), (q[2] % Pow2(25)) * 8 + g>>,
                         -1074 - e))
             r == IF down[2] > 4 \/ (down[2] = 4 /\ down[1][2] % 2 = 1)
                  THEN bigSucc(down[1]) ELSE down[1]
         IN IF r = <<0, 0>> THEN DblZero ELSE <<s, r[1], r[2], -1074>>

\* A finite double other than 0 with its significand in [2^52, 2^53): the
\* exponent of a subnormal one goes below -1074.
dblNormal(x) ==
    IF x[2] >= Pow2(24) THEN x
    ELSE LET n == normLeft(<<x[2], x[3]>>, x[4])
         IN <<x[1]>> \o split53(n[1])[1] \o <<n[2] + 3>>

\* One bit of the long division of r by d (r < d): <<remainder, quotient>>.
divStep(d, st) ==
    LET r == bigAdd(st[1], st[1])
        q == bigAdd(st[2], st[2])
    IN IF bigLess(r, d) THEN <<r, q>> ELSE <<bigSub(r, d), bigSucc(q)>>

\* n bits of the long division, n >= 1: the first half of them, then the
\* rest.  The state after the first half is computed once, as the argument
\* of a function.
RECURSIVE divBits(_, _, _)
divBits(d, st, n) ==
    IF n = 1 THEN divStep(d, st)
    ELSE [half \in Seq(Seq(Int)) |-> divBits(d, half, n - n \div 2)][divBits(d, st, n \div 2)]

\* x / y for finite x and y other than 0 with significands in
\* [2^52, 2^53): 53 bits of the quotient of the significands, and below
\* them the bits that tell what is left: more than, exactly or less than
\* half a unit.
quotient53(x, y) ==
    LET s == x[1] * y[1]
        n == <<x[2], x[3]>>
        d == <<y[2], y[3]>>
        below == bigLess(n, d)
        first == IF below THEN bigSub(bigAdd(n, n), d) ELSE bigSub(n, d)
        e == x[4] - y[4] - (IF below THEN 53 ELSE 52)
        rounded(st) ==
            LET twice == bigAdd(st[1], st[1])
                g == IF st[1] = <<0, 0>> THEN 0
                     ELSE IF bigLess(twice, d) THEN 1
                     ELSE IF twice = d THEN 4
                     ELSE 5
            IN dblPack(s, st[2], g, e)
    IN [st \in Seq(Seq(Int)) |-> rounded(st)][divBits(d, <<first, <<0, 1>>>>, 52)]

\* x / y.  The operands of / * + and Math.round are computed once, as the
\* arguments of a function on the doubles.
dblDiv(x, y) ==
    [a, b \in Seq(Int) |->
        IF a = DblNaN \/ b = DblNaN THEN DblNaN
        ELSE IF a[4] = 1024
        THEN (IF b[4] = 1024 THEN DblNaN ELSE DblInfinity(IF b[1] < 0 THEN -a[1] ELSE a[1]))
        ELSE IF b[4] = 1024 THEN DblZero
        ELSE IF b[1] = 0 THEN (IF a[1] = 0 THEN DblNaN ELSE DblInfinity(a[1]))
        ELSE IF a[1] = 0 THEN DblZero
        ELSE [n, d \in Seq(Int) |-> quotient53(n, d)][dblNormal(a), dblNormal(b)]][x, y]

\* The four 14-bit digits of a significand, the lowest first.
digits14(x) == <<x[3] % Two14, x[3] \div Two14, x[2] % Two14, x[2] \div Two14>>

\* x * y for finite x and y other than 0 with significands in
\* [2^52, 2^53): the 106-bit product of the significands in 28-bit limbs,
\* cut to 53 bits and the three bits that tell what was cut off.
product53(x, y) ==
    LET product(a, b) ==
            LET c0 == a[1] * b[1]
                c1 == a[1] * b[2] + a[2] * b[1] + c0 \div Two14
                c2 == a[1] * b[3] + a[2] * b[2] + a[3] * b[1] + c1 \div Two14
                c3 == a[1] * b[4] + a[2] * b[3] + a[3] * b[2] + a[4] * b[1] + c2 \div Two14
                c4 == a[2] * b[4] + a[3] * b[3] + a[4] * b[2] + c3 \div Two14
                c5 == a[3] * b[4] + a[4] * b[3] + c4 \div Two14
                c6 == a[4] * b[4] + c5 \div Two14
            IN <<(c0 % Two14) + (c1 % Two14) * Two14, (c2 % Two14) + (c3 % Two14) * Two14,
                 (c4 % Two14) + (c5 % Two14) * Two14, c6>>
        cut(limbs) ==
            LET k == IF limbs[4] >= Pow2(21) THEN 25 ELSE 24
                hi == limbs[4] * Pow2(28 - k) + limbs[3] \div Pow2(k)
                lo == (limbs[3] % Pow2(k)) * Pow2(28 - k) + limbs[2] \div Pow2(k)
                rest == limbs[2] % Pow2(k)
                half == Pow2(k - 1)
                g == (IF rest >= half THEN 4 ELSE 0)
                     + (IF rest % half # 0 \/ limbs[1] # 0 THEN 1 ELSE 0)
            IN dblPack(x[1] * y[1], <<hi, lo>>, g, x[4] + y[4] + 28 + k)
    IN Apply(cut, Apply2(product, digits14(x), digits14(y)))

\* x * y
dblMul(x, y) ==
    [a, b \in Seq(Int) |->
        IF a = DblNaN \/ b = DblNaN THEN DblNaN
        ELSE IF a[4] = 1024 \/ b[4] = 1024
        THEN (IF a[1] = 0 \/ b[1] = 0 THEN DblNaN ELSE DblInfinity(a[1] * b[1]))
        ELSE IF a[1] = 0 \/ b[1] = 0 THEN DblZero
        ELSE [n, d \in Seq(Int) |-> product53(n, d)][dblNormal(a), dblNormal(b)]][x, y]

\* |x| < |y| for finite doubles other than 0
dblSmaller(x, y) ==
    x[4] < y[4] \/ (x[4] = y[4] /\ bigLess(<<x[2], x[3]>>, <<y[2], y[3]>>))

\* s * a * 2^e, 0 < a < 2^57, as a double: 53 bits of a, rounded by the
\* bits below them.
dblOfBig(s, a, e) ==
    LET cut(st) ==
            LET bits == split53(st[1])
            IN dblPack(s, bits[1], bits[2], st[2] + 3)
    IN IF a[1] >= Pow2(28) THEN Apply(cut, <<bigShiftRight(a, 1), e + 1>>)
       ELSE Apply(cut, normLeft(a, e))

\* x + y for finite x and y other than 0: the smaller one is shifted to
\* the exponent of the larger one, three bits below the significand being
\* kept.
sum53(x, y) ==
    LET large == IF dblSmaller(x, y) THEN y ELSE x
        small == IF dblSmaller(x, y) THEN x ELSE y
        sum(a, b) ==
            IF x[1] = y[1] THEN dblOfBig(large[1], bigAdd(a, b), large[4] - 3)
            ELSE IF a = b THEN DblZero
            ELSE Apply(LAMBDA c : dblOfBig(large[1], c, large[4] - 3), bigSub(a, b))
    IN Apply2(sum, bigShiftLeft(<<large[2], large[3]>>, 3),
              bigShiftRight(bigShiftLeft(<<small[2], small[3]>>, 3),
                            large[4] - small[4]))

\* x + y
dblAdd(x, y) ==
    [a, b \in Seq(Int) |->
        IF a = DblNaN \/ b = DblNaN THEN DblNaN
        ELSE IF a[4] = 1024
        THEN (IF b[4] = 1024 /\ b[1] # a[1] THEN DblNaN ELSE a)
        ELSE IF b[4] = 1024 THEN b
        ELSE IF a[1] = 0 THEN b
        ELSE IF b[1] = 0 THEN a
        ELSE sum53(a, b)][x, y]

\* x < y for finite doubles
dblLess(x, y) ==
    IF x[1] # y[1] THEN x[1] < y[1]
    ELSE IF x[1] = 1 THEN dblSmaller(x, y)
    ELSE x[1] = -1 /\ dblSmaller(y, x)

\* Math.round(x) for a finite x, |x| < 2^31: the whole number
\* floor(x + 0.5).
round53(x) ==
    IF x[1] = 0 \/ x[4] < -53 THEN 0
    ELSE LET k == -x[4]
             whole == IF k < 28 THEN x[2] * Pow2(28 - k) + x[3] \div Pow2(k)
                      ELSE x[2] \div Pow2(k - 28)
             rest == IF k < 28 THEN <<0, x[3] % Pow2(k)>> ELSE <<x[2] % Pow2(k - 28), x[3]>>
             half == IF k <= 28 THEN <<0, Pow2(k - 1)>> ELSE <<Pow2(k - 29), 0>>
         IN IF x[1] = 1 THEN (IF bigLess(rest, half) THEN whole ELSE whole + 1)
            ELSE (IF bigLess(half, rest) THEN -(whole + 1) ELSE -whole)

dblRound(x) == [a \in Seq(Int) |-> round53(a)][x]

\* The number of doubles from y up to x (below 0: down to x), for doubles
\* of one sign that lie within 2^28 doubles of each other.
dblOffset(x, y) ==
    Apply2(LAMBDA a, b : a[1] * (((a[4] - b[4]) * Pow2(24) + a[2] - b[2]) * Two28 + a[3] - b[3]),
           x, y)

\* The double nearest to n / d, d > 0; n / d itself where d is a power of 2.
dblOfRatio(n, d) ==
    IF n = 0 THEN DblZero
    ELSE IF d = Pow2(bitLength(d) - 1)
    THEN Apply(LAMBDA x : <<x[1], x[2], x[3], x[4] - (bitLength(d) - 1)>>, dblOfInt(n))
    ELSE dblDiv(dblOfInt(n), dblOfInt(d))

\* Math.min(1.0, x) for a double x.
min1(x) == Apply(LAMBDA y : IF dblLess(dblOfInt(1), y) THEN dblOfInt(1) ELSE y, x)

-----------------------------------------------------------------------------
(* WebDataCache.                                                           *)

NULL == <<>>

Str(s) == <<s>>

\* The queries the callers issue.  "A " and "a" normalise to one key, and
\* the key of "É" is "é".
Queries == { <<"a">>, <<"A", " ">>, <<"É">>, <<"c">> }

\* The payloads of Spec; CachedResult.data is string | null.
Payloads == { Str("d1"), NULL }

\* generateCacheKey: lowercase, trim, collapse whitespace, then the first 16
\* hex digits of SHA-256.  The digest is taken to be injective on the
\* normalised queries, so the normalised query stands for its digest.
generateCacheKey(query) == collapseSpaces(trim(toLowerCase(query)))

Keys == { generateCacheKey(q) : q \in Queries }

Remove(f, k) == [x \in (DOMAIN f) \ {k} |-> f[x]]

Put(f, k, v) == [x \in (DOMAIN f) \cup {k} |-> IF x = k THEN v ELSE f[x]]

\* History of accesses: k becomes the most recently accessed key.
Touch(order, k) == SelectSeq(order, LAMBDA x : x # k) \o <<k>>

Forget(order, ks) == SelectSeq(order, LAMBDA x : x \notin ks)

\* evictLRU, the scan: the first key with the strictly smallest access value
\* (NULL for an empty map).  The values are pairwise different, so that is
\* the one key with the minimum.
lruKey ==
    IF DOMAIN accessOrder = {} THEN NULL
    ELSE Str(CHOOSE k \in DOMAIN accessOrder :
                 \A x \in DOMAIN accessOrder : accessOrder[k] <= accessOrder[x])

\* evictLRU with the size test off by one: if (cache.size <= maxCacheSize) return
evictLRUOffByOne ==
    IF Cardinality(DOMAIN cache) <= maxCacheSize \/ lruKey = NULL THEN {} ELSE {lruKey[1]}

\* evictLRU: the keys it deletes from both maps, none below capacity.
evictLRU ==
    IF Cardinality(DOMAIN cache) < maxCacheSize \/ lruKey = NULL THEN {} ELSE {lruKey[1]}

\* cleanupExpired with the comparison strict: now > expiresAt
cleanupExpiredStrict == { k \in DOMAIN cache : now > cache[k].expiresAt }

\* cleanupExpired: the keys the sweep deletes, now >= expiresAt.
cleanupExpired == { k \in DOMAIN cache : now >= cache[k].expiresAt }

\* isValid with the boundary included: Date.now() <= expiresAt
isValidInclusive(cachedResult) == now <= cachedResult.expiresAt

\* isValid(cachedResult): Date.now() < cachedResult.expiresAt
isValid(cachedResult) == now < cachedResult.expiresAt

NoCaller == UNCHANGED <<pc, match, calc, parse, kpi, insights>>

\* What evictLRU deleted: the key and the time it had been stored at.
Evicted(gone) ==
    IF gone = {} THEN NULL
    ELSE LET k == CHOOSE x \in gone : TRUE IN <<k, cache[k].timestamp>>

\* What an operation leaves in lastOp: its name, its key, the payload it was
\* given or returned, the entry evictLRU deleted, and its log line.
Op(op, key, data, evicted, log) ==
    [op |-> op, key |-> key, data |-> data, evicted |-> evicted, log |-> log]

\* get whose hit does not call updateAccessOrder.
getNoBump(query) ==
    LET key == generateCacheKey(query) IN
    /\ IF key \notin DOMAIN cache
       THEN /\ UNCHANGED <<cache, accessOrder, accessCounter, lru>>
            /\ lastOp' = Op("get", key, NULL, NULL, "MISS")
       ELSE IF ~isValid(cache[key])
       THEN /\ cache' = Remove(cache, key)
            /\ accessOrder' = Remove(accessOrder, key)
            /\ lru' = Forget(lru, {key})
            /\ UNCHANGED accessCounter
            /\ lastOp' = Op("get", key, NULL, NULL, "EXPIRED")
       ELSE /\ lru' = Touch(lru, key)
            /\ UNCHANGED <<cache, accessOrder, accessCounter>>
            /\ lastOp' = Op("get", key, cache[key].data, NULL, "HIT")
    /\ UNCHANGED <<maxCacheSize, now>>

\* get that remembers a miss as an entry without data (negative caching).
getCachesMiss(query) ==
    LET key == generateCacheKey(query) IN
    /\ accessCounter < MaxAccess
    /\ IF key \notin DOMAIN cache
       THEN /\ cache' = Put(cache, key, [data |-> NULL, timestamp |-> now,
                                         expiresAt |-> now + TTL])
            /\ accessCounter' = accessCounter + 1
            /\ accessOrder' = Put(accessOrder, key, accessCounter + 1)
            /\ lru' = Touch(lru, key)
            /\ lastOp' = Op("get", key, NULL, NULL, "MISS")
       ELSE IF ~isValid(cache[key])
       THEN /\ cache' = Remove(cache, key)
            /\ accessOrder' = Remove(accessOrder, key)
            /\ lru' = Forget(lru, {key})
            /\ UNCHANGED accessCounter
            /\ lastOp' = Op("get", key, NULL, NULL, "EXPIRED")
       ELSE /\ accessCounter' = accessCounter + 1
            /\ accessOrder' = Put(accessOrder, key, accessCounter + 1)
            /\ lru' = Touch(lru, key)
            /\ UNCHANGED cache
            /\ lastOp' = Op("get", key, cache[key].data, NULL, "HIT")
    /\ UNCHANGED <<maxCacheSize, now>>

\* async get(query)
get(query) ==
    LET key == generateCacheKey(query) IN
    /\ IF key \notin DOMAIN cache
       THEN \* miss
            /\ UNCHANGED <<cache, accessOrder, accessCounter, lru>>
            /\ lastOp' = Op("get", key, NULL, NULL, "MISS")
       ELSE IF ~isValid(cache[key])
       THEN \* expired entry: deleted from both maps
            /\ cache' = Remove(cache, key)
            /\ accessOrder' = Remove(accessOrder, key)
            /\ lru' = Forget(lru, {key})
            /\ UNCHANGED accessCounter
            /\ lastOp' = Op("get", key, NULL, NULL, "EXPIRED")
       ELSE \* hit: updateAccessOrder(key)
            /\ accessCounter < MaxAccess
            /\ accessCounter' = accessCounter + 1
            /\ accessOrder' = Put(accessOrder, key, accessCounter + 1)
            /\ lru' = Touch(lru, key)
            /\ UNCHANGED cache
            /\ lastOp' = Op("get", key, cache[key].data, NULL, "HIT")
    /\ UNCHANGED <<maxCacheSize, now>>

\* set that keeps the payload of an entry already present.
setKeepsOld(query, data) ==
    LET key == generateCacheKey(query)
        gone == evictLRU
        kept == IF key \in (DOMAIN cache) \ gone THEN cache[key].data ELSE data
        cachedResult == [data |-> kept, timestamp |-> now, expiresAt |-> now + TTL]
    IN
    /\ accessCounter < MaxAccess
    /\ cache' = Put([k \in (DOMAIN cache) \ gone |-> cache[k]], key, cachedResult)
    /\ accessCounter' = accessCounter + 1
    /\ accessOrder' = Put([k \in (DOMAIN accessOrder) \ gone |-> accessOrder[k]],
                          key, accessCounter + 1)
    /\ lru' = Touch(Forget(lru, gone), key)
    /\ lastOp' = Op("set", key, data, Evicted(gone), "STORED")
    /\ UNCHANGED <<maxCacheSize, now>>

\* async set(query, data)
set(query, data) ==
    LET key == generateCacheKey(query)
        expiresAt == now + TTL
        gone == evictLRU
        cachedResult == [data |-> data, timestamp |-> now, expiresAt |-> expiresAt]
    IN
    /\ accessCounter < MaxAccess
    /\ cache' = Put([k \in (DOMAIN cache) \ gone |-> cache[k]], key, cachedResult)
    /\ accessCounter' = accessCounter + 1
    /\ accessOrder' = Put([k \in (DOMAIN accessOrder) \ gone |-> accessOrder[k]],
                          key, accessCounter + 1)
    /\ lru' = Touch(Forget(lru, gone), key)
    /\ lastOp' = Op("set", key, data, Evicted(gone), "STORED")
    /\ UNCHANGED <<maxCacheSize, now>>

\* clear()
clear ==
    /\ cache' = <<>>
    /\ accessOrder' = <<>>
    /\ accessCounter' = 0
    /\ lru' = <<>>
    /\ lastOp' = Op("clear", NULL, NULL, NULL, "CLEARED")
    /\ UNCHANGED <<maxCacheSize, now>>

\* delete that forgets the access-order map.
deleteCacheOnly(query) ==
    LET key == generateCacheKey(query)
        existed == key \in DOMAIN cache
    IN
    /\ cache' = Remove(cache, key)
    /\ lru' = Forget(lru, {key})
    /\ lastOp' = Op("delete", key, NULL, NULL, IF existed THEN "DELETED" ELSE "")
    /\ UNCHANGED <<accessOrder, accessCounter, maxCacheSize, now>>

\* delete(query)
delete(query) ==
    LET key == generateCacheKey(query)
        existed == key \in DOMAIN cache
    IN
    /\ cache' = Remove(cache, key)
    /\ accessOrder' = Remove(accessOrder, key)
    /\ lru' = Forget(lru, {key})
    /\ lastOp' = Op("delete", key, NULL, NULL, IF existed THEN "DELETED" ELSE "")
    /\ UNCHANGED <<accessCounter, maxCacheSize, now>>

\* The setInterval callback of the constructor: cleanupExpired()
sweep ==
    LET gone == cleanupExpired IN
    /\ cache' = [k \in (DOMAIN cache) \ gone |-> cache[k]]
    /\ accessOrder' = [k \in (DOMAIN accessOrder) \ gone |-> accessOrder[k]]
    /\ lru' = Forget(lru, gone)
    /\ lastOp' = Op("sweep", NULL, NULL, NULL, IF gone # {} THEN "CLEANED" ELSE "")
    /\ UNCHANGED <<accessCounter, maxCacheSize, now>>

\* The clock advances.
Tick ==
    /\ now < MaxTime
    /\ now' = now + 1
    /\ UNCHANGED <<cache, accessOrder, accessCounter, maxCacheSize, lastOp, lru>>

\* new WebDataCache({maxCacheSize, ttlMinutes})
InitCache ==
    /\ cache = <<>>
    /\ accessOrder = <<>>
    /\ accessCounter = 0
    /\ maxCacheSize \in 1..MaxCapacity
    /\ now = 0
    /\ lastOp = Op("new", NULL, NULL, NULL, "")
    /\ lru = <<>>

\* No call of searchFinancialDataWeb is in flight.
Idle == [at |-> "idle", query |-> <<>>]

NoName == <<>>

\* No call of the RatioCalculator or of the NumberParser is in flight.
NoCall == <<>>

Callers == {1, 2}

Init ==
    /\ InitCache
    /\ pc = [c \in Callers |-> Idle]
    /\ match = NoName
    /\ calc = NoCall
    /\ parse = NoCall
    /\ kpi = NoCall
    /\ insights = NoCall

Get == \E q \in Queries : get(q) /\ NoCaller

Set == \E q \in Queries, d \in Payloads : set(q, d) /\ NoCaller

Delete == \E q \in Queries : delete(q) /\ NoCaller

Clear == clear /\ NoCaller

Sweep == sweep /\ NoCaller

Time == Tick /\ NoCaller

Next == Get \/ Set \/ Delete \/ Clear \/ Sweep \/ Time

\* The cache under every interleaving of its public operations, the sweep
\* timer and the clock.  get and set are async functions without an await in
\* their bodies, so each runs to completion before another callback starts.
Spec == Init /\ [][Next]_vars

\* The sweep timer keeps firing (setInterval).
SpecLive == Init /\ [][Next]_vars /\ WF_vars(Sweep)

-----------------------------------------------------------------------------
(* searchFinancialDataWeb, the one caller of the cache.                    *)

\* query.split(' ')[0]
RECURSIVE companyName(_)
companyName(query) ==
    IF query = <<>> \/ Head(query) = " " THEN <<>>
    ELSE <<Head(query)>> \o companyName(Tail(query))

\* The branch of the lookup: the company and the kind of information the
\* first line of its text names.  The five branches of the known companies
\* build a fixed text; the last one holds companyName, here name.
searchBranch(name) ==
    LET lower == toLowerCase(name)
        stock(company) == [company |-> company, information |-> "Stock"]
    IN IF includes(lower, <<"m", "a", "r", "u", "t", "i">>) \/ includes(lower, <<"s", "u", "z", "u", "k", "i">>)
       THEN stock(<<"M", "a", "r", "u", "t", "i", " ", "S", "u", "z", "u", "k", "i", " ", "I", "n", "d", "i", "a", " ", "L", "i", "m", "i", "t", "e", "d">>)
       ELSE IF includes(lower, <<"t", "a", "t", "a">>) /\ includes(lower, <<"m", "o", "t", "o", "r">>)
       THEN stock(<<"T", "a", "t", "a", " ", "M", "o", "t", "o", "r", "s", " ", "L", "i", "m", "i", "t", "e", "d">>)
       ELSE IF includes(lower, <<"m", "a", "h", "i", "n", "d", "r", "a">>) \/ includes(lower, <<"m", "&", "m">>)
       THEN stock(<<"M", "a", "h", "i", "n", "d", "r", "a", " ", "&", " ", "M", "a", "h", "i", "n", "d", "r", "a", " ", "L", "i", "m", "i", "t", "e", "d">>)
       ELSE IF includes(lower, <<"a", "m", "a", "z", "o", "n">>) \/ includes(lower, <<"a", "m", "z", "n">>)
       THEN stock(<<"A", "m", "a", "z", "o", "n", ".", "c", "o", "m", " ", "I", "n", "c">>)
       ELSE IF includes(lower, <<"a", "p", "p", "l", "e">>) \/ includes(lower, <<"a", "a", "p", "l">>)
       THEN stock(<<"A", "p", "p", "l", "e", " ", "I", "n", "c">>)
       ELSE [company |-> name, information |-> "Financial"]

\* The text the lookup builds: the template string of the branch, which ends
\* with new Date().toISOString(), read when the clock was at built.
searchResult(query, built) ==
    LET branch == searchBranch(companyName(query))
    IN Str([company |-> branch.company, information |-> branch.information,
            lastUpdated |-> built])

\* A catch block that caches the failure: await webDataCache.set(query, null)
catchErrorCachesNull(c, query) ==
    /\ set(query, NULL)
    /\ pc' = [pc EXCEPT ![c] = Idle]

\* The catch block: nothing is cached, null is returned.
catchError(c, query) ==
    /\ lastOp' = Op("error", generateCacheKey(query), NULL, NULL, "Web search error")
    /\ pc' = [pc EXCEPT ![c] = Idle]
    /\ UNCHANGED <<cache, accessOrder, accessCounter, maxCacheSize, now, lru>>

\* try { cachedResult = await webDataCache.get(query); if (cachedResult !== null) return
WebGet(c, query) ==
    /\ pc[c].at = "idle"
    /\ get(query)
    /\ pc' = [pc EXCEPT ![c] = IF lastOp'.data # NULL THEN Idle
                                ELSE [at |-> "miss", query |-> query]]

\* result = ...; await webDataCache.set(query, result); return result.  The
\* step reads the clock twice, with new Date() for the text and then with
\* Date.now() in set, and the clock may advance between the two: now is what
\* set reads, and the text holds that reading or an earlier one.
WebSet(c) ==
    /\ pc[c].at = "miss"
    /\ \E built \in 0..now : set(pc[c].query, searchResult(pc[c].query, built))
    /\ pc' = [pc EXCEPT ![c] = Idle]

\* An exception inside the try block (the hashing primitive of
\* generateCacheKey fails, in get or in set, before either touches the maps).
WebThrow(c, query) ==
    /\ \/ pc[c].at = "idle"
       \/ pc[c].at = "miss" /\ pc[c].query = query
    /\ catchError(c, query)

\* The queries of the in-flight lookups.
WebQueries == { <<"a">>, <<"A", " ">>, <<"A", "A", "P", "L", " ", "b">> }

Lookup == \E c \in Callers, q \in WebQueries : WebGet(c, q) /\ UNCHANGED <<match, calc, parse, kpi, insights>>

Store == \E c \in Callers : WebSet(c) /\ UNCHANGED <<match, calc, parse, kpi, insights>>

Fail == \E c \in Callers, q \in WebQueries : WebThrow(c, q) /\ UNCHANGED <<match, calc, parse, kpi, insights>>

NextWeb == Lookup \/ Store \/ Fail \/ Sweep \/ Time

\* The program: concurrent calls of searchFinancialDataWeb, the sweep timer
\* and the clock.  Nothing in the repository calls delete or clear.
SpecWeb == Init /\ [][NextWeb]_vars

-----------------------------------------------------------------------------
(* KPINormalizer: company names.                                           *)

\* The words of the suffix pattern:
\* inc|incorporated|corp|corporation|ltd|limited|llc|co|company
LegalSuffixes ==
    { <<"i", "n", "c">>,
      <<"i", "n", "c", "o", "r", "p", "o", "r", "a", "t", "e", "d">>,
      <<"c", "o", "r", "p">>,
      <<"c", "o", "r", "p", "o", "r", "a", "t", "i", "o", "n">>,
      <<"l", "t", "d">>,
      <<"l", "i", "m", "i", "t", "e", "d">>,
      <<"l", "l", "c">>,
      <<"c", "o">>,
      <<"c", "o", "m", "p", "a", "n", "y">> }

\* name.replace(/([a-z])([A-Z])/g, '$1 $2')
RECURSIVE splitCamelCase(_)
splitCamelCase(s) ==
    LET pairs == { i \in 1..(Len(s) - 1) : IsLower(s[i]) /\ IsUpper(s[i + 1]) }
        pairAt(i) == SubSeq(s, 1, i) \o <<" ">> \o splitCamelCase(SubSeq(s, i + 1, Len(s)))
    IN IF pairs = {} THEN s
       ELSE Apply(pairAt, CHOOSE i \in pairs : \A j \in pairs : i <= j)

\* The last index of the run of \w characters that starts at i.
wordEnd(s, i) ==
    CHOOSE e \in i..Len(s) :
        /\ \A j \in i..e : IsWordChar(s[j])
        /\ e = Len(s) \/ ~IsWordChar(s[e + 1])

\* .replace(/\b(inc|...|company)\b\.?/gi, '').  With a \b on both sides
\* the pattern matches exactly a whole run of \w characters that is one of
\* the words, in any case, and one "." after it.
removeSuffixes(s) ==
    LET suffixAt(k) ==
            /\ IsWordChar(s[k]) /\ (k = 1 \/ ~IsWordChar(s[k - 1]))
            /\ ignoreCase(SubSeq(s, k, wordEnd(s, k))) \in LegalSuffixes
        matchAt(k, e) == [from |-> k, to |-> IF e < Len(s) /\ s[e + 1] = "." THEN e + 1 ELSE e]
        removed(matches) ==
            charsAt(s, LAMBDA i : \A m \in matches : i < m.from \/ i > m.to)
    IN Apply(removed, { matchAt(k, wordEnd(s, k)) : k \in { k \in 1..Len(s) : suffixAt(k) } })

\* .replace(/[^\w\s]/g, '')
removeNonAlphanumeric(s) == SelectSeq(s, LAMBDA c : IsWordChar(c) \/ IsSpace(c))

\* normalizeCompanyName(name)
normalizeCompanyName(name) ==
    Apply(toLowerCase,
          Apply(trim,
                Apply(collapseSpaces,
                      Apply(removeNonAlphanumeric,
                            Apply(removeSuffixes, splitCamelCase(name))))))

\* s.split(/\s+/): the pieces between the runs of whitespace; the empty
\* string gives one empty piece.
split(s) ==
    LET pieceEnd(i) ==
            CHOOSE e \in i..Len(s) :
                /\ \A j \in i..e : ~IsSpace(s[j])
                /\ e = Len(s) \/ IsSpace(s[e + 1])
        pieces(starts) == [k \in 1..Len(starts) |-> SubSeq(s, starts[k], pieceEnd(starts[k]))]
        empty(found) == IF found THEN << <<>> >> ELSE <<>>
    IN empty(s = <<>> \/ IsSpace(s[1]))
       \o Apply(pieces, SelectSeq([i \in 1..Len(s) |-> i],
                                  LAMBDA i : ~IsSpace(s[i]) /\ (i = 1 \/ IsSpace(s[i - 1]))))
       \o empty(s # <<>> /\ IsSpace(s[Len(s)]))

\* normalized.split(/\s+/).filter(w => w.length > 2)
eligibleWords(normalized) == SelectSeq(split(normalized), LAMBDA w : Len(w) > 2)

Min2(a, b) == IF a <= b THEN a ELSE b

Max2(a, b) == IF a >= b THEN a ELSE b

\* Row i of the matrix of calculateStringSimilarity, from row i - 1:
\* matrix[i][0] = i, matrix[i][j] = min(deletion, insertion, substitution).
\* The insertion matrix[i][j - 1] + 1 is followed back along the row to the
\* cell it started from: matrix[i][j] is the least of from[k] + (j - k) over
\* k <= j, where from[0] = i and from[k] = min(deletion, substitution) at k.
matrixRow(prev, i, ch, str2) ==
    LET from == [k \in 0..Len(str2) |->
                    IF k = 0 THEN i
                    ELSE Min2(prev[k + 1] + 1, prev[k] + (IF ch = str2[k] THEN 0 ELSE 1))]
        cell(j) == CHOOSE least \in { from[k] + (j - k) : k \in 0..j } :
                       \A k \in 0..j : least <= from[k] + (j - k)
    IN <<>> \o [j \in 1..(Len(str2) + 1) |-> cell(j - 1)]

\* Row last of the matrix, from row i - 1: the rows i to last are computed
\* one after the other, the first half of them, then the rest.
RECURSIVE matrixRows(_, _, _, _, _)
matrixRows(prev, i, last, str1, str2) ==
    IF i > last THEN prev
    ELSE IF i = last THEN matrixRow(prev, i, str1[i], str2)
    ELSE [row \in Seq(Int) |-> matrixRows(row, (i + last) \div 2 + 1, last, str1, str2)]
             [matrixRows(prev, i, (i + last) \div 2, str1, str2)]

\* matrix[len1][len2], the Levenshtein distance.
editDistance(str1, str2) ==
    matrixRows([j \in 1..(Len(str2) + 1) |-> j - 1], 1, Len(str1), str1, str2)[Len(str2) + 1]

\* calculateStringSimilarity(str1, str2) = (maxLen - distance) / maxLen, as
\* the fraction <<numerator, denominator>>: the double nearest to it.
calculateStringSimilarity(str1, str2) ==
    IF Len(str1) = 0 THEN (IF Len(str2) = 0 THEN <<1, 1>> ELSE <<0, 1>>)
    ELSE IF Len(str2) = 0 THEN <<0, 1>>
    ELSE LET maxLen == Max2(Len(str1), Len(str2))
         IN <<maxLen - editDistance(str1, str2), maxLen>>

\* The result of the division 0 / 0.
NaN == <<0, 0>>

\* The pair that stands for the double x, which is n / d or a double next to
\* it: <<n, d>> for the double nearest to n / d, <<n, d, u>> for the double u
\* units in the last place above it.
pairOf(x, n, d) ==
    Apply(LAMBDA u : IF u = 0 THEN <<n, d>> ELSE <<n, d, u>>, dblOffset(x, dblOfRatio(n, d)))

\* The units in the last place of a pair.
ulpsOf(x) == IF Len(x) = 3 THEN x[3] ELSE 0

\* x >= n / d for a number x; false when x is NaN.
atLeast(x, n, d) ==
    x # NaN /\ (x[1] * d > n * x[2] \/ (x[1] * d = n * x[2] /\ ulpsOf(x) >= 0))

\* x > n / d for a number x; false when x is NaN.
moreThan(x, n, d) ==
    x # NaN /\ (x[1] * d > n * x[2] \/ (x[1] * d = n * x[2] /\ ulpsOf(x) > 0))

\* The fuzzy test with the threshold at 0.9: similarity > 0.9
isFuzzyMatchNineTenths(userWord, aiWord) ==
    moreThan(calculateStringSimilarity(userWord, aiWord), 9, 10)

\* similarity > 0.7
isFuzzyMatch(userWord, aiWord) ==
    moreThan(calculateStringSimilarity(userWord, aiWord), 7, 10)

\* The inner loop for one userWord, from aiWords[j]: <<exact, fuzzy>> counted.
\* An equal word counts as exact and ends the loop (break); every other word
\* with similarity > 0.7 counts as fuzzy.
countMatches(userWord, aiWords, j) ==
    LET reached == { k \in j..Len(aiWords) : \A h \in j..(k - 1) : aiWords[h] # userWord }
    IN <<Cardinality({ k \in reached : aiWords[k] = userWord }),
         Cardinality({ k \in reached :
                         aiWords[k] # userWord /\ isFuzzyMatch(userWord, aiWords[k]) })>>

\* The outer loop: exactMatches + fuzzyMatches over userWords[i..].
RECURSIVE totalMatches(_, _, _)
totalMatches(userWords, aiWords, i) ==
    IF i > Len(userWords) THEN 0
    ELSE LET m == countMatches(userWords[i], aiWords, 1)
         IN m[1] + m[2] + totalMatches(userWords, aiWords, i + 1)

\* The overlap ratio without the two guards: totalMatches / minWords.
safeOverlapRatioUnguarded(userWords, aiWords) ==
    <<totalMatches(userWords, aiWords, 1), Min2(Len(userWords), Len(aiWords))>>

\* safeOverlapRatio: minWords > 0 ? totalMatches / minWords : 0, and NaN
\* replaced by 0.
safeOverlapRatio(userWords, aiWords) ==
    LET minWords == Min2(Len(userWords), Len(aiWords))
        overlapRatio == IF minWords > 0
                        THEN <<totalMatches(userWords, aiWords, 1), minWords>>
                        ELSE <<0, 1>>
    IN IF overlapRatio = NaN THEN <<0, 1>> ELSE overlapRatio

\* Math.min(safeOverlapRatio + 0.1, 1.0)
boostedConfidence(ratio) ==
    LET confidence == min1(dblAdd(dblOfRatio(ratio[1], ratio[2]), dblOfRatio(1, 10)))
    IN IF 10 * ratio[1] + ratio[2] >= 10 * ratio[2] THEN pairOf(confidence, 1, 1)
       ELSE pairOf(confidence, 10 * ratio[1] + ratio[2], 10 * ratio[2])

\* knownShortNames of checkShortNameMatch
knownShortNames ==
    { <<"3", "m">>,
      <<"i", "b", "m">>,
      <<"g", "e">>,
      <<"h", "p">>,
      <<"a", "t", "t">>,
      <<"b", "p">>,
      <<"u", "p", "s">>,
      <<"a", "m", "d">>,
      <<"a", "i", "g">> }

\* a.startsWith(b)
startsWith(a, b) == Len(b) <= Len(a) /\ SubSeq(a, 1, Len(b)) = b

\* The pairs (userWord, aiWord) in the order the two nested loops visit them.
pairOrder(userWords, aiWords) ==
    [n \in 1..(Len(userWords) * Len(aiWords)) |->
        <<userWords[((n - 1) \div Len(aiWords)) + 1], aiWords[((n - 1) % Len(aiWords)) + 1]>>]

\* What checkShortNameMatch decides at one pair: 95, 85 (hundredths) or 0.
shortNameAt(userWord, aiWord) ==
    LET userLower == toLowerCase(userWord)
        aiLower == toLowerCase(aiWord)
    IN IF userLower \in knownShortNames /\ aiLower \in knownShortNames /\ userLower = aiLower
       THEN 95
       ELSE IF (Len(userLower) <= 3 \/ Len(aiLower) <= 3)
               /\ (userLower = aiLower \/ startsWith(aiLower, userLower)
                   \/ startsWith(userLower, aiLower))
       THEN 85
       ELSE 0

\* checkShortNameMatch(userWords, aiWords): the first pair that decides.
checkShortNameMatch(userWords, aiWords) ==
    LET pairs == pairOrder(userWords, aiWords)
        hits == { n \in 1..Len(pairs) : shortNameAt(pairs[n][1], pairs[n][2]) # 0 }
    IN IF hits = {} THEN [isMatch |-> FALSE, confidence |-> <<0, 1>>]
       ELSE LET first == CHOOSE n \in hits : \A m \in hits : n <= m
            IN [isMatch |-> TRUE,
                confidence |-> <<shortNameAt(pairs[first][1], pairs[first][2]), 100>>]

\* checkAbbreviationMatch(userWords, aiWords)
checkAbbreviationMatch(userWords, aiWords) ==
    \E i \in 1..Len(userWords), j \in 1..Len(aiWords) :
        LET userWord == userWords[i]
            aiWord == aiWords[j]
        IN \/ /\ Len(userWord) >= 2
              /\ Len(aiWord) > Len(userWord) * 2
              /\ startsWith(toLowerCase(aiWord), toLowerCase(userWord))
           \/ /\ Len(aiWord) >= 2
              /\ Len(userWord) > Len(aiWord) * 2
              /\ startsWith(toLowerCase(userWord), toLowerCase(aiWord))

\* The result record; userNormalized is the document name in every branch.
NameMatchResult(isMatch, confidence, aiNormalized, issues) ==
    [isMatch |-> isMatch, confidence |-> confidence, userNormalized |-> aiNormalized,
     aiNormalized |-> aiNormalized, issues |-> issues]

\* validateCompanyNameMatch without the exact-match branch.
validateCompanyNameMatchNoExact(userEnteredName, aiExtractedName) ==
    LET userNormalized == normalizeCompanyName(userEnteredName)
        aiNormalized == normalizeCompanyName(aiExtractedName)
        userWords == eligibleWords(userNormalized)
        aiWords == eligibleWords(aiNormalized)
        ratio == safeOverlapRatio(userWords, aiWords)
        hasShortNameMatch == checkShortNameMatch(userWords, aiWords)
    IN IF atLeast(ratio, 7, 10)
       THEN NameMatchResult(TRUE, boostedConfidence(ratio), aiNormalized,
                            <<"Name match with typo tolerance">>)
       ELSE IF hasShortNameMatch.isMatch
       THEN NameMatchResult(TRUE, hasShortNameMatch.confidence, aiNormalized,
                            <<"Short name match detected">>)
       ELSE IF checkAbbreviationMatch(userWords, aiWords)
       THEN NameMatchResult(TRUE, <<75, 100>>, aiNormalized,
                            <<"Abbreviation match detected">>)
       ELSE IF includes(aiNormalized, userNormalized) \/ includes(userNormalized, aiNormalized)
       THEN NameMatchResult(TRUE, <<8, 10>>, aiNormalized, <<"Partial name match detected">>)
       ELSE NameMatchResult(FALSE, ratio, aiNormalized,
                            <<"Company name mismatch", "Please verify", "Confidence score">>)

\* validateCompanyNameMatch with the overlap threshold at 0.8.
validateCompanyNameMatchEightTenths(userEnteredName, aiExtractedName) ==
    LET userNormalized == normalizeCompanyName(userEnteredName)
        aiNormalized == normalizeCompanyName(aiExtractedName)
        userWords == eligibleWords(userNormalized)
        aiWords == eligibleWords(aiNormalized)
        ratio == safeOverlapRatio(userWords, aiWords)
        hasShortNameMatch == checkShortNameMatch(userWords, aiWords)
    IN IF userNormalized = aiNormalized
       THEN NameMatchResult(TRUE, <<1, 1>>, aiNormalized, <<>>)
       ELSE IF atLeast(ratio, 8, 10)
       THEN NameMatchResult(TRUE, boostedConfidence(ratio), aiNormalized,
                            <<"Name match with typo tolerance">>)
       ELSE IF hasShortNameMatch.isMatch
       THEN NameMatchResult(TRUE, hasShortNameMatch.confidence, aiNormalized,
                            <<"Short name match detected">>)
       ELSE IF checkAbbreviationMatch(userWords, aiWords)
       THEN NameMatchResult(TRUE, <<75, 100>>, aiNormalized,
                            <<"Abbreviation match detected">>)
       ELSE IF includes(aiNormalized, userNormalized) \/ includes(userNormalized, aiNormalized)
       THEN NameMatchResult(TRUE, <<8, 10>>, aiNormalized, <<"Partial name match detected">>)
       ELSE NameMatchResult(FALSE, ratio, aiNormalized,
                            <<"Company name mismatch", "Please verify", "Confidence score">>)

\* validateCompanyNameMatch(userEnteredName, aiExtractedName)
validateCompanyNameMatch(userEnteredName, aiExtractedName) ==
    LET userNormalized == normalizeCompanyName(userEnteredName)
        aiNormalized == normalizeCompanyName(aiExtractedName)
        userWords == eligibleWords(userNormalized)
        aiWords == eligibleWords(aiNormalized)
        ratio == safeOverlapRatio(userWords, aiWords)
        hasShortNameMatch == checkShortNameMatch(userWords, aiWords)
    IN IF userNormalized = aiNormalized
       THEN NameMatchResult(TRUE, <<1, 1>>, aiNormalized, <<>>)
       ELSE IF atLeast(ratio, 7, 10)
       THEN NameMatchResult(TRUE, boostedConfidence(ratio), aiNormalized,
                            <<"Name match with typo tolerance">>)
       ELSE IF hasShortNameMatch.isMatch
       THEN NameMatchResult(TRUE, hasShortNameMatch.confidence, aiNormalized,
                            <<"Short name match detected">>)
       ELSE IF checkAbbreviationMatch(userWords, aiWords)
       THEN NameMatchResult(TRUE, <<75, 100>>, aiNormalized,
                            <<"Abbreviation match detected">>)
       ELSE IF includes(aiNormalized, userNormalized) \/ includes(userNormalized, aiNormalized)
       THEN NameMatchResult(TRUE, <<8, 10>>, aiNormalized, <<"Partial name match detected">>)
       ELSE NameMatchResult(FALSE, ratio, aiNormalized,
                            <<"Company name mismatch", "Please verify", "Confidence score">>)

\* The names the matcher is run on: empty, suffix-only and two-letter names,
\* camel case, legal suffixes, typos, several similar words, known short
\* names of two and of three letters, prefixes, abbreviations and unrelated
\* names.
CompanyNames ==
    {
      <<>>,
      <<"L", "t", "d", ".">>,
      <<"3", "M">>,
      <<"a", "b">>,
      <<"a", "b", " ", "c", "d">>,
      <<"c", ".", "o">>,
      <<"I", "B", "M">>,
      <<"A", "T", "&", "T", " ", "I", "n", "c">>,
      <<"T", "a", "t", "a", " ", "M", "o", "t", "o", "r", "s">>,
      <<"T", "a", "t", "a", "M", "o", "t", "o", "r", "s">>,
      <<"T", "a", "t", "a", "\r", "M", "o", "t", "o", "r", "s">>,
      <<"T", "a", "t", "a", " ", "M", "o", "t", "o", "r", "s", " ", "L", "i", "m", "i", "t", "e", "d">>,
      <<"t", "a", "t", "a", " ", " ", "m", "o", "t", "o", "r", "s", " ", "l", "t", "d">>,
      <<"T", "a", "t", "a", " ", "M", "o", "t", "o", "e", "s">>,
      <<"T", "a", "t", "a", " ", "S", "t", "e", "e", "l", " ", "W", "o", "r", "k", "s">>,
      <<"T", "a", "t", " ", "P", "o", "w", "e", "r", " ", "G", "r", "i", "d">>,
      <<"T", "a", "t", "a", " ", "S", "t", "e", "e", "l", " ", "W", "o", "r", "k", "s", " ", "M", "i", "l", "l">>,
      <<"T", "a", "t", "a", " ", "S", "t", "e", "e", "l", " ", "W", "o", "r", "k", "s", " ", "P", "l", "a", "n", "t">>,
      <<"M", "o", "t", "o", "r", "s", " ", "M", "o", "t", "o", "r", "z", " ", "M", "o", "t", "o", "r", "y">>,
      <<"M", "o", "t", "o", "r", "z">>,
      <<"M", "o", "t", "o", "r", "z", " ", "T", "a", "t", "a">>,
      <<"I", "B", "M", " ", "C", "l", "o", "u", "d", " ", "D", "a", "t", "a">>,
      <<"I", "B", "M", " ", "W", "a", "t", "s", "o", "n", " ", "H", "e", "a", "l", "t", "h">>,
      <<"A", "T", "T", " ", "C", "l", "o", "u", "d", " ", "M", "e", "d", "i", "a">>,
      <<"I", "n", "f", "o">>,
      <<"I", "n", "f", "o", "s", "y", "s", "t", "e", "m", "s">>,
      <<"A", "p", "p", "l", "e", "_", "I", "n", "c">>,
      <<"3", "M", " ", "H", "e", "a", "l", "t", "h", " ", "C", "a", "r", "e">>,
      <<"3", "M", " ", "P", "u", "r", "i", "f", "i", "c", "a", "t", "i", "o", "n">>,
      <<"R", "e", "d", " ", "S", "k", "y", " ", "O", "a", "k", " ", "E", "l", "m", " ", "F", "i", "g", " ", "Y", "e", "w", " ", "A", "s", "h">>,
      <<"R", "e", "d", " ", "S", "k", "y", " ", "O", "a", "k", " ", "E", "l", "m", " ", "F", "i", "g", " ", "Y", "e", "w", " ", "H", "o", "p">>,
      <<"R", "e", "d", " ", "S", "k", "y", " ", "O", "a", "k", " ", "E", "l", "m", " ", "F", "i", "g", " ", "Y", "e", "w", " ", "A", "s", "h", " ", "B", "a", "y", " ", "C", "o", "d", " ", "G", "u", "m">>,
      <<"R", "e", "d", " ", "S", "k", "y", " ", "O", "a", "k", " ", "E", "l", "m", " ", "F", "i", "g", " ", "Y", "e", "w", " ", "A", "s", "h", " ", "N", "u", "t", " ", "P", "i", "l", " ", "Z", "o", "o">>
    }

\* A call of validateCompanyNameMatch is about to be made.
InitName ==
    /\ InitCache
    /\ maxCacheSize = 1
    /\ pc = [c \in Callers |-> Idle]
    /\ match \in [user : CompanyNames, ai : CompanyNames, result : {NULL}]
    /\ calc = NoCall
    /\ parse = NoCall
    /\ kpi = NoCall
    /\ insights = NoCall

\* The call returns.
Validate ==
    /\ match.result = NULL
    /\ match' = [match EXCEPT !.result = Str(validateCompanyNameMatch(match.user, match.ai))]
    /\ UNCHANGED <<cacheVars, calc, parse, kpi, insights>>

NextName == Validate

\* validateCompanyNameMatch on every pair of CompanyNames.
SpecName == InitName /\ [][NextName]_vars

-----------------------------------------------------------------------------
(* RatioCalculator: JavaScript numbers.                                    *)
(*                                                                         *)
(* A number of the RatioCalculator is <<n, d, t>>: the number              *)
(* (n / d) * MIN_VALUE^t with d > 0 and t in {0, 1}; <<1, 0, 0>> and       *)
(* <<-1, 0, 0>> are Infinity and -Infinity and <<0, 0, 0>> is NaN.  The    *)
(* number with t = 0 stands for the double nearest to n / d (Num(1, 10) is  *)
(* the double 0.1).  A double that is not the nearest one to a fraction    *)
(* of small terms is <<n, d, 0, u>>: the double u units in the last place  *)
(* above the double nearest to n / d.  The numbers with t = 1 are          *)
(* <<k, 1, 1>>, the whole multiples k * Number.MIN_VALUE (5e-324): the     *)
(* subnormal doubles.  The arithmetic on all of them is the arithmetic of  *)
(* the doubles they stand for.                                             *)

UNDEFINED == <<"undefined">>

Num(n, d) == <<n, d, 0>>

\* Number.MIN_VALUE, the smallest positive double.
MIN_VALUE == <<1, 1, 1>>

Infinity(sign) == <<sign, 0, 0>>

NaNumber == <<0, 0, 0>>

Sign(n) == IF n < 0 THEN -1 ELSE IF n > 0 THEN 1 ELSE 0

Abs(n) == IF n < 0 THEN -n ELSE n

\* typeof x === 'number' && isFinite(x)
isFinite(x) == Len(x) \in {3, 4} /\ x[2] # 0

\* !x for a number, null or undefined: null, undefined, 0 and NaN.
falsy(x) == x = UNDEFINED \/ x = NULL \/ x[1] = 0

\* x === 0
isZero(x) == Len(x) = 3 /\ x[1] = 0 /\ x[2] # 0

\* The double a number <<n, d, t>> stands for.
toDouble(x) ==
    IF x[2] = 0 THEN (IF x[1] = 0 THEN DblNaN ELSE DblInfinity(x[1]))
    ELSE IF x[3] = 1 THEN <<Sign(x[1]), Abs(x[1]) \div Two28, Abs(x[1]) % Two28, -1074>>
    ELSE dblOfRatio(x[1], x[2])

\* The number that stands for the double x, which is n / d (d > 0) or a
\* double next to it.
fromDouble(x, n, d) ==
    IF n = 0 THEN Num(0, 1)
    ELSE Apply(LAMBDA u : IF u = 0 THEN Num(n, d) ELSE <<n, d, 0, u>>,
               dblOffset(x, dblOfRatio(n, d)))

\* Math.round(x * 100) / 100 for a double x: NaN and the infinities come
\* through both steps; of a finite x (|x * 100| < 2^31) it is the double
\* nearest to so many hundredths.
roundTo2(x) ==
    [y \in Seq(Int) |->
        IF y = DblNaN THEN NaNumber
        ELSE IF y[4] = 1024 THEN Infinity(y[1])
        ELSE [m \in Int |-> IF m = 0 THEN Num(0, 1) ELSE Num(m, 100)][dblRound(y)]
    ][dblMul(x, dblOfInt(100))]

\* Math.round((a / b) * 100 * 100) / 100
percentage(a, b) == roundTo2(dblMul(dblDiv(toDouble(a), toDouble(b)), dblOfInt(100)))

\* Math.round((a / b) * 100) / 100
quotient(a, b) == roundTo2(dblDiv(toDouble(a), toDouble(b)))

\* Math.round((a * 1000 / b) * 100) / 100
perShare(a, b) == roundTo2(dblDiv(dblMul(toDouble(a), dblOfInt(1000)), toDouble(b)))

-----------------------------------------------------------------------------
(* RatioCalculator.                                                        *)

calculateGrossMargin(grossProfit, revenue) ==
    IF falsy(grossProfit) \/ falsy(revenue) \/ isZero(revenue) THEN NULL
    ELSE percentage(grossProfit, revenue)

calculateOperatingMargin(operatingIncome, revenue) ==
    IF falsy(operatingIncome) \/ falsy(revenue) \/ isZero(revenue) THEN NULL
    ELSE percentage(operatingIncome, revenue)

calculateProfitMargin(netIncome, revenue) ==
    IF falsy(netIncome) \/ falsy(revenue) \/ isZero(revenue) THEN NULL
    ELSE percentage(netIncome, revenue)

calculateROE(netIncome, shareholdersEquity) ==
    IF falsy(netIncome) \/ falsy(shareholdersEquity) \/ isZero(shareholdersEquity) THEN NULL
    ELSE percentage(netIncome, shareholdersEquity)

calculateROA(netIncome, totalAssets) ==
    IF falsy(netIncome) \/ falsy(totalAssets) \/ isZero(totalAssets) THEN NULL
    ELSE percentage(netIncome, totalAssets)

calculateROIC(netIncome, totalDebt, shareholdersEquity) ==
    IF falsy(netIncome) \/ falsy(totalDebt) \/ falsy(shareholdersEquity) THEN NULL
    ELSE [investedCapital \in Seq(Int) |->
             IF investedCapital = DblZero THEN NULL
             ELSE roundTo2(dblMul(dblDiv(toDouble(netIncome), investedCapital), dblOfInt(100)))
         ][dblAdd(toDouble(totalDebt), toDouble(shareholdersEquity))]

calculateCurrentRatio(currentAssets, currentLiabilities) ==
    IF falsy(currentAssets) \/ falsy(currentLiabilities) \/ isZero(currentLiabilities) THEN NULL
    ELSE quotient(currentAssets, currentLiabilities)

\* quickAssets = currentAssets * 0.7
calculateQuickRatio(currentAssets, currentLiabilities) ==
    IF falsy(currentAssets) \/ falsy(currentLiabilities) \/ isZero(currentLiabilities) THEN NULL
    ELSE LET quickAssets == dblMul(toDouble(currentAssets), dblOfRatio(7, 10))
         IN roundTo2(dblDiv(quickAssets, toDouble(currentLiabilities)))

calculateCashRatio(cashEquivalents, currentLiabilities) ==
    IF falsy(cashEquivalents) \/ falsy(currentLiabilities) \/ isZero(currentLiabilities) THEN NULL
    ELSE quotient(cashEquivalents, currentLiabilities)

calculateDebtToEquity(totalDebt, shareholdersEquity) ==
    IF falsy(totalDebt) \/ falsy(shareholdersEquity) \/ isZero(shareholdersEquity) THEN NULL
    ELSE quotient(totalDebt, shareholdersEquity)

calculateDebtToAssets(totalDebt, totalAssets) ==
    IF falsy(totalDebt) \/ falsy(totalAssets) \/ isZero(totalAssets) THEN NULL
    ELSE percentage(totalDebt, totalAssets)

calculateEPS(netIncome, sharesOutstanding) ==
    IF falsy(netIncome) \/ falsy(sharesOutstanding) \/ isZero(sharesOutstanding) THEN NULL
    ELSE perShare(netIncome, sharesOutstanding)

calculateBookValuePerShare(shareholdersEquity, sharesOutstanding) ==
    IF falsy(shareholdersEquity) \/ falsy(sharesOutstanding) \/ isZero(sharesOutstanding)
    THEN NULL
    ELSE perShare(shareholdersEquity, sharesOutstanding)

calculatePERatio(stockPrice, eps) ==
    IF falsy(stockPrice) \/ falsy(eps) \/ isZero(eps) THEN NULL
    ELSE quotient(stockPrice, eps)

calculatePBRatio(stockPrice, bookValuePerShare) ==
    IF falsy(stockPrice) \/ falsy(bookValuePerShare) \/ isZero(bookValuePerShare) THEN NULL
    ELSE quotient(stockPrice, bookValuePerShare)

\* calculateAllRatios(inputs): the 15 keys it sets.
calculateAllRatios(inputs) ==
    LET eps == calculateEPS(inputs.netIncome, inputs.sharesOutstanding)
        bookValuePerShare ==
            calculateBookValuePerShare(inputs.shareholdersEquity, inputs.sharesOutstanding)
    IN [grossMargin |-> calculateGrossMargin(inputs.grossProfit, inputs.revenue),
        operatingMargin |-> calculateOperatingMargin(inputs.operatingIncome, inputs.revenue),
        profitMargin |-> calculateProfitMargin(inputs.netIncome, inputs.revenue),
        roe |-> calculateROE(inputs.netIncome, inputs.shareholdersEquity),
        roa |-> calculateROA(inputs.netIncome, inputs.totalAssets),
        roic |-> calculateROIC(inputs.netIncome, inputs.totalDebt, inputs.shareholdersEquity),
        currentRatio |-> calculateCurrentRatio(inputs.currentAssets, inputs.currentLiabilities),
        quickRatio |->
            calculateQuickRatio(inputs.currentAssets, inputs.currentLiabilities),
        cashRatio |-> calculateCashRatio(inputs.cashEquivalents, inputs.currentLiabilities),
        debtToEquity |-> calculateDebtToEquity(inputs.totalDebt, inputs.shareholdersEquity),
        debtToAssets |-> calculateDebtToAssets(inputs.totalDebt, inputs.totalAssets),
        eps |-> eps,
        bookValuePerShare |-> bookValuePerShare,
        peRatio |-> calculatePERatio(inputs.stockPrice, eps),
        pbRatio |-> calculatePBRatio(inputs.stockPrice, bookValuePerShare)]

\* bounds of validateRatios: ratio name -> <<min, max>>
bounds ==
    [grossMargin |-> <<-100, 100>>, operatingMargin |-> <<-100, 100>>,
     profitMargin |-> <<-100, 100>>, roe |-> <<-100, 200>>, roa |-> <<-100, 100>>,
     roic |-> <<-100, 100>>, currentRatio |-> <<0, 50>>, quickRatio |-> <<0, 50>>,
     cashRatio |-> <<0, 50>>, debtToEquity |-> <<0, 50>>, debtToAssets |-> <<0, 100>>,
     eps |-> <<-1000, 1000>>, bookValuePerShare |-> <<-1000, 10000>>,
     peRatio |-> <<-1000, 1000>>, pbRatio |-> <<-100, 100>>]

\* x < k for a number x and a whole number k; false for NaN.  The double a
\* few units in the last place away from n / d is on the side of k that
\* n / d is on, and on the side of its units where n / d is k.
lessThan(x, k) ==
    /\ x # NaNumber
    /\ IF x[2] = 0 THEN x[1] < 0
       ELSE IF x[3] = 1 THEN k > 0 \/ (k = 0 /\ x[1] < 0)
       ELSE x[1] < k * x[2] \/ (x[1] = k * x[2] /\ Len(x) = 4 /\ x[4] < 0)

\* x > k for a number x and a whole number k; false for NaN.
greaterThan(x, k) ==
    /\ x # NaNumber
    /\ IF x[2] = 0 THEN x[1] > 0
       ELSE IF x[3] = 1 THEN k < 0 \/ (k = 0 /\ x[1] > 0)
       ELSE x[1] > k * x[2] \/ (x[1] = k * x[2] /\ Len(x) = 4 /\ x[4] > 0)

\* The loop body of validateRatios: what the key is left with.
validatedValue(ratio, value) ==
    IF value # NULL /\ value # UNDEFINED /\ ratio \in DOMAIN bounds
       /\ (lessThan(value, bounds[ratio][1]) \/ greaterThan(value, bounds[ratio][2]))
    THEN NULL
    ELSE value

\* validateRatios(ratios): what it returns (a copy, { ...ratios }, with the
\* values outside their bounds set to null) and what is left of its argument.
validateRatios(ratios) ==
    [argument |-> ratios,
     validated |-> [ratio \in DOMAIN ratios |-> validatedValue(ratio, ratios[ratio])]]

\* x && y of two inputs, as a condition.
bothTruthy(x, y) == ~falsy(x) /\ ~falsy(y)

\* The three bonuses, 0.2, 0.15 and 0.1, in hundredths; 0 where the pair of
\* inputs does not earn its bonus.
keyMetricsBonuses(inputs) ==
    << IF bothTruthy(inputs.revenue, inputs.netIncome) THEN 20 ELSE 0,
       IF bothTruthy(inputs.totalAssets, inputs.shareholdersEquity) THEN 15 ELSE 0,
       IF bothTruthy(inputs.currentAssets, inputs.currentLiabilities) THEN 10 ELSE 0 >>

\* keyMetricsBonus after its three +=, a double.
keyMetricsBonus(inputs) ==
    LET bonuses == keyMetricsBonuses(inputs)
        add(sum, bonus) == IF bonus = 0 THEN sum ELSE dblAdd(sum, dblOfRatio(bonus, 100))
    IN add(add(add(DblZero, bonuses[1]), bonuses[2]), bonuses[3])

\* calculateConfidenceScore(inputs, ratios)
calculateConfidenceScore(inputs, ratios) ==
    LET totalPossibleRatios == Cardinality(DOMAIN ratios)
        calculatedRatios ==
            Cardinality({ k \in DOMAIN ratios : ratios[k] # NULL /\ ratios[k] # UNDEFINED })
        bonuses == keyMetricsBonuses(inputs)
        hundredthsOfBonus == bonuses[1] + bonuses[2] + bonuses[3]
        n == 100 * calculatedRatios + hundredthsOfBonus * totalPossibleRatios
        d == 100 * totalPossibleRatios
    IN IF totalPossibleRatios = 0 THEN NaNumber
       ELSE LET completenessScore == dblDiv(dblOfInt(calculatedRatios), dblOfInt(totalPossibleRatios))
                score == min1(dblAdd(completenessScore, keyMetricsBonus(inputs)))
            IN IF n >= d THEN fromDouble(score, 1, 1) ELSE fromDouble(score, n, d)

\* The fields of RatioInputs that the calculator reads.
Fields ==
    {"revenue", "netIncome", "grossProfit", "operatingIncome", "totalAssets",
     "currentAssets", "currentLiabilities", "totalDebt", "cashEquivalents",
     "shareholdersEquity", "sharesOutstanding", "stockPrice"}

\* What a field holds: missing, null, 0, 1.5, 10, -1.5, 5.75,
\* Number.MIN_VALUE and 5 * Number.MIN_VALUE.  (5.75 / 10) * 100 is
\* 57.49999999999999 as a double, and 5 * MIN_VALUE * 0.7 is 3 * MIN_VALUE.
InputValues ==
    {UNDEFINED, NULL, Num(0, 1), Num(3, 2), Num(10, 1), Num(-3, 2), Num(23, 4), MIN_VALUE,
     <<5, 1, 1>>}

\* What the fields of a bag hold but for two of them.
CommonValues == {UNDEFINED, Num(0, 1), Num(3, 2), Num(10, 1)}

\* The input bags: every field holds c, but for at most two of them.
RatioInputs ==
    { [f \in Fields |-> IF f = g1 THEN a ELSE IF f = g2 THEN b ELSE c] :
        g1 \in Fields, g2 \in Fields, a \in InputValues, b \in InputValues, c \in CommonValues }

\* The keys of the mapping calculateConfidenceScore is given: all 15, the
\* liquidity ratios only, or none.
KeySets ==
    { DOMAIN bounds, {"currentRatio", "quickRatio", "cashRatio"}, {} }

Restrict(f, keys) == [k \in keys |-> f[k]]

\* What a mapping holds under a ratio name: null, NaN, the infinities, 0,
\* 1.5, the two bounds of the name, the numbers 1 below the lower bound, 1
\* above the upper one and 0.01 above it, and the doubles next to a bound
\* that is not 0, one unit in the last place below it and one above it
\* (50.00000000000001 and 49.99999999999999 for 50).
RatioValues(ratio) ==
    {NULL, NaNumber, Infinity(1), Infinity(-1), Num(0, 1), Num(3, 2),
     Num(bounds[ratio][1], 1), Num(bounds[ratio][2], 1),
     Num(bounds[ratio][1] - 1, 1), Num(bounds[ratio][2] + 1, 1),
     Num(100 * bounds[ratio][2] + 1, 100)}
    \cup { <<bounds[ratio][i], 1, 0, u>> :
             i \in { j \in 1..2 : bounds[ratio][j] # 0 }, u \in {-1, 1} }

\* The mappings validateRatios is called with on its own: under all 15
\* names, under the liquidity ratios or under none, every name holding null
\* or 1.5, which is inside every pair of bounds, but for one name.
RatioMappings ==
    UNION { { [k \in keys |-> IF k = ratio THEN value ELSE common] :
                keys \in KeySets, value \in RatioValues(ratio),
                common \in {NULL, Num(3, 2)} } :
            ratio \in DOMAIN bounds }

\* A bag of inputs is about to be run through the calculator, or a mapping
\* through validateRatios.
InitRatio ==
    /\ InitCache
    /\ maxCacheSize = 1
    /\ pc = [c \in Callers |-> Idle]
    /\ match = NoName
    /\ parse = NoCall
    /\ calc \in [op : {"calculate"}, inputs : RatioInputs, ratios : {NULL},
                 validated : {NULL}, scored : {NULL}, score : {NULL}]
              \cup [op : {"validate"}, inputs : {NULL},
                    ratios : { Str(ratios) : ratios \in RatioMappings },
                    validated : {NULL}, scored : {NULL}, score : {NULL}]
    /\ kpi = NoCall
    /\ insights = NoCall

\* const calculatedRatios = RatioCalculator.calculateAllRatios(aiResult)
RunCalculate ==
    /\ calc.ratios = NULL
    /\ calc' = [calc EXCEPT !.ratios = Str(calculateAllRatios(calc.inputs))]
    /\ UNCHANGED <<cacheVars, match, parse, kpi, insights>>

\* const validatedRatios = RatioCalculator.validateRatios(calculatedRatios)
RunValidate ==
    /\ calc.ratios # NULL
    /\ calc.validated = NULL
    /\ LET r == validateRatios(calc.ratios[1])
       IN calc' = [calc EXCEPT !.ratios = Str(r.argument), !.validated = Str(r.validated)]
    /\ UNCHANGED <<cacheVars, match, parse, kpi, insights>>

\* RatioCalculator.calculateConfidenceScore(inputs, ratios), on the validated
\* ratios or on some of them.
RunScore ==
    /\ calc.op = "calculate"
    /\ calc.validated # NULL
    /\ calc.score = NULL
    /\ \E keys \in KeySets :
        LET ratios == Restrict(calc.validated[1], keys)
        IN calc' = [calc EXCEPT !.scored = Str(ratios),
                                !.score = Str(calculateConfidenceScore(calc.inputs, ratios))]
    /\ UNCHANGED <<cacheVars, match, parse, kpi, insights>>

NextRatio == RunCalculate \/ RunValidate \/ RunScore

\* The RatioCalculator on every bag of RatioInputs, and validateRatios on
\* every mapping of RatioMappings.
SpecRatio == InitRatio /\ [][NextRatio]_vars

-----------------------------------------------------------------------------
(* NumberParser.                                                           *)
(*                                                                         *)
(* Numbers are the <<n, d, 0>> and <<n, d, 0, u>> of the RatioCalculator.   *)
(* Inside convertToBillionsUSD and calculateConfidence the variables       *)
(* converted and confidence are doubles.                                   *)

\* FinancialContext.documentScale
DocumentScales == {"thousands", "millions", "billions", "crores", "lakhs", "units"}

\* FinancialContext.currency
Currencies == {"USD", "INR", "EUR", "GBP", "unknown"}

\* let converted = value
asConverted(value) == dblOfRatio(value[1], value[2])

\* The scale conversion with crores divided by 1000.
scaleConversionCroresByThousand(value, documentScale) ==
    CASE documentScale = "thousands" -> dblDiv(value, dblOfInt(1000000))
      [] documentScale = "millions" -> dblDiv(value, dblOfInt(1000))
      [] documentScale = "billions" -> value
      [] documentScale = "crores" -> dblDiv(value, dblOfInt(1000))
      [] documentScale = "lakhs" -> dblDiv(value, dblOfInt(10000))
      [] OTHER -> dblDiv(value, dblOfInt(1000000000))

\* The scale conversion: converted = value / 1000000, and so on.
scaleConversion(value, documentScale) ==
    CASE documentScale = "thousands" -> dblDiv(value, dblOfInt(1000000))
      [] documentScale = "millions" -> dblDiv(value, dblOfInt(1000))
      [] documentScale = "billions" -> value
      [] documentScale = "crores" -> dblDiv(value, dblOfInt(100))
      [] documentScale = "lakhs" -> dblDiv(value, dblOfInt(10000))
      [] OTHER -> dblDiv(value, dblOfInt(1000000000))

\* The currency conversion: converted / 83, converted * 1.1,
\* converted * 1.25, or nothing.
currencyConversion(converted, currency) ==
    CASE currency = "INR" -> dblDiv(converted, dblOfInt(83))
      [] currency = "EUR" -> dblMul(converted, dblOfRatio(11, 10))
      [] currency = "GBP" -> dblMul(converted, dblOfRatio(5, 4))
      [] OTHER -> converted

\* Math.round(converted * 100) * 10: two decimals in the place of three.
roundHundredths(converted) == 10 * dblRound(dblMul(converted, dblOfInt(100)))

\* Math.round(converted * 1000)
roundThousandths(converted) == dblRound(dblMul(converted, dblOfInt(1000)))

\* convertToBillionsUSD(value, context)
convertToBillionsUSD(value, context) ==
    LET scaled == scaleConversion(asConverted(value), context.documentScale)
        converted == currencyConversion(scaled, context.currency)
    IN Num(roundThousandths(converted), 1000)

\* x < y for two finite numbers that are no multiples of MIN_VALUE.
numLess(x, y) ==
    LET cross == x[1] * y[2] - y[1] * x[2]
        ulps(z) == IF Len(z) = 4 THEN z[4] ELSE 0
    IN cross < 0 \/ (cross = 0 /\ ulps(x) < ulps(y))

\* a.confidence < b.confidence
lessConfident(a, b) == numLess(a.confidence, b.confidence)

\* a.confidence > b.confidence
moreConfident(a, b) == numLess(b.confidence, a.confidence)

\* results.sort((a, b) => b.confidence - a.confidence): the sort is stable.
RECURSIVE insertByConfidence(_, _)
insertByConfidence(sorted, number) ==
    IF sorted = <<>> THEN <<number>>
    ELSE IF moreConfident(number, Head(sorted)) THEN <<number>> \o sorted
    ELSE <<Head(sorted)>> \o insertByConfidence(Tail(sorted), number)

RECURSIVE sortByConfidence(_)
sortByConfidence(results) ==
    IF results = <<>> THEN <<>>
    ELSE insertByConfidence(sortByConfidence(SubSeq(results, 1, Len(results) - 1)),
                            results[Len(results)])

\* The keys of the merged object: metric, `${metric}_confidence` and
\* `${metric}_evidence`.  A key is a string, as a metric is.
metricKey(metric) == metric

confidenceKey(metric) ==
    metric \o <<"_", "c", "o", "n", "f", "i", "d", "e", "n", "c", "e">>

evidenceKey(metric) ==
    metric \o <<"_", "e", "v", "i", "d", "e", "n", "c", "e">>

\* What an object inherits from Object.prototype: the methods, which are
\* functions, and the accessor __proto__, which reads as Object.prototype
\* itself.
FunctionValue == <<"function">>

PrototypeValue == <<"object">>

\* "__proto__"
ProtoKey == <<"_", "_", "p", "r", "o", "t", "o", "_", "_">>

ObjectPrototype ==
    [key \in { <<"c", "o", "n", "s", "t", "r", "u", "c", "t", "o", "r">>,
               <<"h", "a", "s", "O", "w", "n", "P", "r", "o", "p", "e", "r", "t", "y">>,
               <<"i", "s", "P", "r", "o", "t", "o", "t", "y", "p", "e", "O", "f">>,
               <<"p", "r", "o", "p", "e", "r", "t", "y", "I", "s", "E", "n", "u", "m", "e", "r", "a", "b", "l", "e">>,
               <<"t", "o", "L", "o", "c", "a", "l", "e", "S", "t", "r", "i", "n", "g">>,
               <<"t", "o", "S", "t", "r", "i", "n", "g">>,
               <<"v", "a", "l", "u", "e", "O", "f">>,
               <<"_", "_", "d", "e", "f", "i", "n", "e", "G", "e", "t", "t", "e", "r", "_", "_">>,
               <<"_", "_", "d", "e", "f", "i", "n", "e", "S", "e", "t", "t", "e", "r", "_", "_">>,
               <<"_", "_", "l", "o", "o", "k", "u", "p", "G", "e", "t", "t", "e", "r", "_", "_">>,
               <<"_", "_", "l", "o", "o", "k", "u", "p", "S", "e", "t", "t", "e", "r", "_", "_">>,
               ProtoKey }
        |-> IF key = ProtoKey THEN PrototypeValue ELSE FunctionValue]

\* object[key]: the own property, or else what Object.prototype has of
\* that name.
property(object, key) ==
    IF key \in DOMAIN object THEN object[key]
    ELSE IF key \in DOMAIN ObjectPrototype THEN ObjectPrototype[key]
    ELSE UNDEFINED

\* object[key] = value for a number or a string: the property becomes an
\* own one, but for __proto__ where the object has no own property of that
\* name, whose inherited setter takes an object or null and ignores any
\* other value.
assign(object, key, value) ==
    IF key = ProtoKey /\ key \notin DOMAIN object THEN object
    ELSE [k \in DOMAIN object \cup {key} |-> IF k = key THEN value ELSE object[k]]

\* !aiValue || aiValue === 0 || aiValue === null; a function and an object
\* are neither.
noAiValue(aiValue) ==
    /\ aiValue \notin {FunctionValue, PrototypeValue}
    /\ falsy(aiValue) \/ isZero(aiValue) \/ aiValue = NULL

\* mergeExtractionResults with every candidate taking the place of the AI value.
mergeMetricHeuristicWins(merged, metric, numbers) ==
    IF Len(numbers) > 0
    THEN LET bestNumber == numbers[1]
         IN assign(assign(assign(merged, metricKey(metric), bestNumber.value),
                          confidenceKey(metric), bestNumber.confidence),
                   evidenceKey(metric), bestNumber.evidenceSnippet)
    ELSE merged

\* The body of the loop of mergeExtractionResults.
mergeMetric(merged, metric, numbers) ==
    IF Len(numbers) > 0
    THEN LET bestNumber == numbers[1]
             aiValue == property(merged, metricKey(metric))
         IN IF noAiValue(aiValue)
            THEN assign(assign(assign(merged, metricKey(metric), bestNumber.value),
                               confidenceKey(metric), bestNumber.confidence),
                        evidenceKey(metric), bestNumber.evidenceSnippet)
            ELSE merged
    ELSE merged

\* for (const [metric, numbers] of Array.from(heuristicResults.entries())):
\* the loop from the i-th entry of the Map on.  A Map is the sequence of its
\* entries <<key, value>>, in the order they were set in.
RECURSIVE mergeFrom(_, _, _)
mergeFrom(merged, heuristicResults, i) ==
    IF i > Len(heuristicResults) THEN merged
    ELSE mergeFrom(mergeMetric(merged, heuristicResults[i][1], heuristicResults[i][2]),
                   heuristicResults, i + 1)

\* mergeExtractionResults(heuristicResults, aiResult)
mergeExtractionResults(heuristicResults, aiResult) ==
    mergeFrom(aiResult, heuristicResults, 1)

-----------------------------------------------------------------------------
(* NumberParser: documents.                                                *)
(*                                                                         *)
(* A pattern of the NumberParser is a set of phrases, a phrase being the   *)
(* words of one alternative of the regular expression, which \s+           *)
(* separates; optional parts at either end of an alternative do not change *)
(* whether it matches and are left out.  All the patterns are              *)
(* case-insensitive.                                                       *)

\* The first index from i on whose character is not one of chars.
skip(s, i, chars) ==
    LET stops == { j \in i..Len(s) : s[j] \notin chars }
    IN IF stops # {} THEN CHOOSE j \in stops : \A k \in stops : j <= k
       ELSE IF i <= Len(s) THEN Len(s) + 1
       ELSE i

\* \s
Spaces == WhiteSpace

\* The index after the phrase matched at i, words separated by \s+; 0 when
\* the phrase does not match there.
RECURSIVE matchPhraseAt(_, _, _)
matchPhraseAt(s, i, phrase) ==
    LET word == Head(phrase)
        end == i + Len(word)
    IN IF end - 1 > Len(s) \/ SubSeq(s, i, end - 1) # word THEN 0
       ELSE IF Len(phrase) = 1 THEN end
       ELSE IF skip(s, end, Spaces) = end THEN 0
       ELSE matchPhraseAt(s, skip(s, end, Spaces), Tail(phrase))

\* pattern.test(s)
test(s, pattern) ==
    LET found(lower) ==
            \E i \in 1..Len(lower), phrase \in pattern : matchPhraseAt(lower, i, phrase) # 0
    IN Apply(found, ignoreCase(s))

\* SCALE_PATTERNS, in the order of the object.
SCALE_PATTERNS ==
    << <<"thousands", { <<<<"t", "h", "o", "u", "s", "a", "n", "d">>>> }>>,
       <<"millions", { <<<<"m", "i", "l", "l", "i", "o", "n">>>> }>>,
       <<"billions", { <<<<"b", "i", "l", "l", "i", "o", "n">>>> }>>,
       <<"crores", { <<<<"c", "r", "o", "r", "e">>>> }>>,
       <<"lakhs", { <<<<"l", "a", "k", "h">>>> }>> >>

\* CURRENCY_PATTERNS, in the order of the object.
CURRENCY_PATTERNS ==
    << <<"USD", { <<<<"$">>>>,
                    <<<<"u", "s", "d">>>>,
                    <<<<"d", "o", "l", "l", "a", "r">>>> }>>,
       <<"INR", { <<<<"₹">>>>,
                    <<<<"i", "n", "r">>>>,
                    <<<<"r", "s">>>>,
                    <<<<"r", "u", "p", "e", "e">>>> }>>,
       <<"EUR", { <<<<"€">>>>,
                    <<<<"e", "u", "r">>>>,
                    <<<<"e", "u", "r", "o">>>> }>>,
       <<"GBP", { <<<<"£">>>>,
                    <<<<"g", "b", "p">>>>,
                    <<<<"p", "o", "u", "n", "d">>>> }>> >>

\* for (const [name, pattern] of Object.entries(patterns))
\*     if (pattern.test(text)) { ... = name; break; }
firstPattern(text, patterns, default) ==
    LET matching == { i \in 1..Len(patterns) : test(text, patterns[i][2]) }
    IN IF matching = {} THEN default
       ELSE patterns[CHOOSE i \in matching : \A j \in matching : i <= j][1]

\* The anchors of the period pattern.
PeriodAnchors ==
    { <<<<"t", "h", "r", "e", "e">>, <<"m", "o", "n", "t", "h", "s">>, <<"e", "n", "d", "e", "d">>>>,
      <<<<"q", "u", "a", "r", "t", "e", "r">>, <<"e", "n", "d", "e", "d">>>>,
      <<<<"f", "o", "r">>, <<"t", "h", "e">>, <<"p", "e", "r", "i", "o", "d">>, <<"e", "n", "d", "e", "d">>>>,
      <<<<"f", "i", "s", "c", "a", "l">>, <<"y", "e", "a", "r">>, <<"e", "n", "d", "e", "d">>>> }

\* text.match(/(?:three\s+months\s+ended|...)\s*([^.]*)/i): null, or the
\* whole match and its group.
periodMatch(text) ==
    LET lower == ignoreCase(text)
        starts == { i \in 1..Len(text) :
                      \E anchor \in PeriodAnchors : matchPhraseAt(lower, i, anchor) # 0 }
    IN IF starts = {} THEN NULL
       ELSE LET start == CHOOSE i \in starts : \A j \in starts : i <= j
                anchor == CHOOSE a \in PeriodAnchors : matchPhraseAt(lower, start, a) # 0
                from == skip(text, matchPhraseAt(lower, start, anchor), Spaces)
                to == skip(text, from, Range(text) \ {"."})
            IN Str([whole |-> SubSeq(text, start, to - 1), group |-> SubSeq(text, from, to - 1)])

\* detectDocumentContext(text)
detectDocumentContext(text) ==
    LET matched == periodMatch(text)
    IN [documentScale |-> firstPattern(text, SCALE_PATTERNS, "units"),
        currency |-> firstPattern(text, CURRENCY_PATTERNS, "unknown"),
        period |-> IF matched = NULL THEN NULL ELSE Str(trim(matched[1].group)),
        isQuarterly |-> matched # NULL
                        /\ test(matched[1].whole, { <<<<"q", "u", "a", "r", "t", "e", "r">>>>,
                                                  <<<<"t", "h", "r", "e", "e">>, <<"m", "o", "n", "t", "h", "s">>>> })]

\* text.split(/[.!?]+/)
RECURSIVE splitSentences(_)
splitSentences(text) ==
    LET ends == {".", "!", "?"}
        sentenceTo(end) ==
            IF end > Len(text) THEN <<text>>
            ELSE <<SubSeq(text, 1, end - 1)>>
                 \o Apply(splitSentences, SubSeq(text, skip(text, end, ends), Len(text)))
    IN Apply(sentenceTo, skip(text, 1, Range(text) \ ends))

\* The index after the match of NUMBER_PATTERN at i,
\* /(?:\()?\s*[\d,]+\.?\d*\s*(?:\))?/; 0 when it does not match there.
numberMatchEnd(s, i) ==
    LET digits == Range(DigitChars)
        open == IF i <= Len(s) /\ s[i] = "(" THEN i + 1 ELSE i
        first == skip(s, open, Spaces)
        whole == skip(s, first, digits \cup {","})
        dot == IF whole <= Len(s) /\ s[whole] = "." THEN whole + 1 ELSE whole
        last == skip(s, skip(s, dot, digits), Spaces)
    IN IF whole = first THEN 0
       ELSE IF last <= Len(s) /\ s[last] = ")" THEN last + 1 ELSE last

\* text.match(NUMBER_PATTERN), from i on: the matches from left to right.
RECURSIVE numberMatches(_, _)
numberMatches(s, i) ==
    LET matchTo(start, end) == <<SubSeq(s, start, end - 1)>> \o numberMatches(s, end)
        matchAt(start) == Apply(LAMBDA end : matchTo(start, end), numberMatchEnd(s, start))
        first(starts) == IF starts = {} THEN <<>>
                         ELSE Apply(matchAt, CHOOSE j \in starts : \A k \in starts : j <= k)
    IN Apply(first, { j \in i..Len(s) : numberMatchEnd(s, j) # 0 })

\* The number a string of digits reads as.
RECURSIVE digitsValue(_)
digitsValue(s) ==
    IF s = <<>> THEN 0
    ELSE 10 * digitsValue(SubSeq(s, 1, Len(s) - 1))
         + (CHOOSE d \in 0..9 : DigitChars[d + 1] = s[Len(s)])

RECURSIVE power10(_)
power10(k) == IF k = 0 THEN 1 ELSE 10 * power10(k - 1)

\* parseFloat(s): the longest prefix of s, after leading whitespace, that is
\* a decimal literal (sign, digits, point, digits, exponent) or Infinity;
\* NaN when there is none.
parseFloat(s) ==
    LET digits == Range(DigitChars)
        t == trimStart(s)
        sign == IF t # <<>> /\ t[1] = "-" THEN -1 ELSE 1
        from == IF t # <<>> /\ t[1] \in {"-", "+"} THEN 2 ELSE 1
        whole == skip(t, from, digits)
        frac == IF whole <= Len(t) /\ t[whole] = "." THEN skip(t, whole + 1, digits) ELSE whole
        fraction == IF frac > whole THEN SubSeq(t, whole + 1, frac - 1) ELSE <<>>
        mantissa == digitsValue(SubSeq(t, from, whole - 1) \o fraction)
        signed == IF frac + 1 <= Len(t) /\ t[frac + 1] \in {"-", "+"} THEN frac + 2 ELSE frac + 1
        expEnd == IF frac <= Len(t) /\ t[frac] \in {"e", "E"} THEN skip(t, signed, digits) ELSE signed
        exponent == IF expEnd > signed
                    THEN (IF t[signed - 1] = "-" THEN -1 ELSE 1)
                         * digitsValue(SubSeq(t, signed, expEnd - 1))
                    ELSE 0
        shift == exponent - Len(fraction)
    IN IF startsWith(SubSeq(t, from, Len(t)), <<"I", "n", "f", "i", "n", "i", "t", "y">>) THEN Infinity(sign)
       ELSE IF whole = from /\ fraction = <<>> THEN NaNumber
       ELSE IF mantissa = 0 THEN Num(0, 1)
       ELSE IF shift >= 0 THEN Num(sign * mantissa * power10(shift), 1)
       ELSE Num(sign * mantissa, power10(-shift))

\* The numbers of extractNumbersFromText(text, context), with the fields the
\* callers read.  isNegative is /^\(.*\)$/.test(match.trim()): the dot
\* matches any character but a line terminator.
extractNumbersFromText(text, context) ==
    LET isNegative(trimmed) ==
            /\ Len(trimmed) >= 2
            /\ trimmed[1] = "(" /\ trimmed[Len(trimmed)] = ")"
            /\ Range(SubSeq(trimmed, 2, Len(trimmed) - 1)) \cap LineTerminators = {}
        negated(parsed, negative) ==
            IF negative THEN <<-parsed[1], parsed[2], 0>> ELSE parsed
        number(value) ==
            [value |-> value,
             confidence |-> Num(7, 10),
             evidenceSnippet |-> SubSeq(text, 1, Min2(100, Len(text)))]
    IN Apply(LAMBDA values :
                 [i \in 1..Len(values) |->
                     number(convertToBillionsUSD(values[i], context))],
             SelectSeq(Apply(LAMBDA matches :
                                 [i \in 1..Len(matches) |->
                                     Apply2(negated,
                                            parseFloat(SelectSeq(matches[i],
                                                LAMBDA c : c \notin Spaces \cup {",", "(", ")"})),
                                            Apply(isNegative, trim(matches[i])))],
                             numberMatches(text, 1)),
                       LAMBDA value : value # NaNumber))

\* confidence += 0.1, on <<confidence, the tenths it stands for>>
addTenth(confidence) == <<dblAdd(confidence[1], dblOfRatio(1, 10)), confidence[2] + 1>>

\* confidence -= 0.2
lessTwoTenths(confidence) == <<dblAdd(confidence[1], dblOfRatio(-2, 10)), confidence[2] - 2>>

\* calculateConfidence(sentence, metricName, value); the value is a whole
\* number of thousandths, so 0.001 is value[2] \div 1000 of them.
calculateConfidence(sentence, metricName, value) ==
    LET ranged(confidence) ==
            IF value[1] > value[2] \div 1000 /\ lessThan(value, 10000)
            THEN addTenth(confidence) ELSE confidence
        worded(confidence) ==
            IF test(sentence, { <<<<"r", "e", "v", "e", "n", "u", "e">>>>,
                                <<<<"i", "n", "c", "o", "m", "e">>>>,
                                <<<<"p", "r", "o", "f", "i", "t">>>>,
                                <<<<"l", "o", "s", "s">>>>,
                                <<<<"a", "s", "s", "e", "t", "s">>>>,
                                <<<<"d", "e", "b", "t">>>> })
            THEN addTenth(confidence) ELSE confidence
        unlikely(confidence) ==
            IF 10 * value[1] < value[2] \div 1000 \/ greaterThan(value, 100000)
            THEN lessTwoTenths(confidence) ELSE confidence
        named(confidence) ==
            IF includes(toLowerCase(sentence), toLowerCase(metricName))
            THEN addTenth(confidence) ELSE confidence
        clamped(confidence) ==
            IF confidence[2] <= 0 THEN Num(0, 1)
            ELSE IF confidence[2] >= 10 THEN fromDouble(min1(confidence[1]), 1, 1)
            ELSE fromDouble(confidence[1], confidence[2], 10)
    IN Apply(clamped, named(unlikely(worded(ranged(<<dblOfRatio(7, 10), 7>>)))))

\* FINANCIAL_PATTERNS, in the order of the object: the key and the phrases
\* of its pattern.  An optional word inside an alternative (cash and cash
\* equivalents, shares outstanding) gives one phrase with it and one
\* without it.
FINANCIAL_PATTERNS ==
    << <<<<"r", "e", "v", "e", "n", "u", "e">>,
         { <<<<"r", "e", "v", "e", "n", "u", "e">>>>,
           <<<<"s", "a", "l", "e", "s">>>>,
           <<<<"i", "n", "c", "o", "m", "e">>, <<"f", "r", "o", "m">>, <<"o", "p", "e", "r", "a", "t", "i", "o", "n", "s">>>>,
           <<<<"o", "p", "e", "r", "a", "t", "i", "n", "g">>, <<"r", "e", "v", "e", "n", "u", "e">>>> }>>,
       <<<<"n", "e", "t", "I", "n", "c", "o", "m", "e">>,
         { <<<<"n", "e", "t">>, <<"i", "n", "c", "o", "m", "e">>>>,
           <<<<"n", "e", "t">>, <<"e", "a", "r", "n", "i", "n", "g", "s">>>>,
           <<<<"n", "e", "t">>, <<"p", "r", "o", "f", "i", "t">>>>,
           <<<<"p", "r", "o", "f", "i", "t">>, <<"a", "f", "t", "e", "r">>, <<"t", "a", "x">>>>,
           <<<<"e", "a", "r", "n", "i", "n", "g", "s">>, <<"a", "f", "t", "e", "r">>, <<"t", "a", "x">>>> }>>,
       <<<<"t", "o", "t", "a", "l", "A", "s", "s", "e", "t", "s">>,
         { <<<<"t", "o", "t", "a", "l">>, <<"a", "s", "s", "e", "t", "s">>>> }>>,
       <<<<"c", "a", "s", "h">>,
         { <<<<"c", "a", "s", "h">>, <<"e", "q", "u", "i", "v", "a", "l", "e", "n", "t">>>>,
           <<<<"c", "a", "s", "h">>, <<"a", "n", "d">>, <<"e", "q", "u", "i", "v", "a", "l", "e", "n", "t">>>>,
           <<<<"c", "a", "s", "h">>, <<"c", "a", "s", "h">>, <<"e", "q", "u", "i", "v", "a", "l", "e", "n", "t">>>>,
           <<<<"c", "a", "s", "h">>, <<"a", "n", "d">>, <<"c", "a", "s", "h">>, <<"e", "q", "u", "i", "v", "a", "l", "e", "n", "t">>>> }>>,
       <<<<"d", "e", "b", "t">>,
         { <<<<"d", "e", "b", "t">>>>,
           <<<<"b", "o", "r", "r", "o", "w", "i", "n", "g", "s">>>> }>>,
       <<<<"e", "b", "i", "t", "d", "a">>,
         { <<<<"e", "b", "i", "t", "d", "a">>>> }>>,
       <<<<"g", "r", "o", "s", "s", "P", "r", "o", "f", "i", "t">>,
         { <<<<"g", "r", "o", "s", "s">>, <<"p", "r", "o", "f", "i", "t">>>> }>>,
       <<<<"o", "p", "e", "r", "a", "t", "i", "n", "g", "I", "n", "c", "o", "m", "e">>,
         { <<<<"o", "p", "e", "r", "a", "t", "i", "n", "g">>, <<"i", "n", "c", "o", "m", "e">>>>,
           <<<<"o", "p", "e", "r", "a", "t", "i", "n", "g">>, <<"p", "r", "o", "f", "i", "t">>>> }>>,
       <<<<"s", "h", "a", "r", "e", "s", "O", "u", "t", "s", "t", "a", "n", "d", "i", "n", "g">>,
         { <<<<"s", "h", "a", "r", "e">>, <<"o", "u", "t", "s", "t", "a", "n", "d", "i", "n", "g">>>>,
           <<<<"s", "h", "a", "r", "e", "s">>, <<"o", "u", "t", "s", "t", "a", "n", "d", "i", "n", "g">>>>,
           <<<<"o", "u", "t", "s", "t", "a", "n", "d", "i", "n", "g">>, <<"s", "h", "a", "r", "e">>>> }>>,
       <<<<"b", "o", "o", "k", "V", "a", "l", "u", "e">>,
         { <<<<"b", "o", "o", "k">>, <<"v", "a", "l", "u", "e">>>>,
           <<<<"s", "h", "a", "r", "e", "h", "o", "l", "d", "e", "r">>, <<"e", "q", "u", "i", "t", "y">>>>,
           <<<<"s", "h", "a", "r", "e", "h", "o", "l", "d", "e", "r", "s">>, <<"e", "q", "u", "i", "t", "y">>>>,
           <<<<"s", "t", "o", "c", "k", "h", "o", "l", "d", "e", "r">>, <<"e", "q", "u", "i", "t", "y">>>>,
           <<<<"s", "t", "o", "c", "k", "h", "o", "l", "d", "e", "r", "s">>, <<"e", "q", "u", "i", "t", "y">>>> }>> >>

\* The lists of numbers findNumbersForMetric handles.
NumberLists ==
    Seq([value : Seq(Int), confidence : Seq(Int), evidenceSnippet : Seq(STRING)])

\* findNumbersForMetric(text, metricPattern, metricName, context).  The
\* sentences, the numbers of a sentence and the results before the sort are
\* computed once, each as the argument of a function.
findNumbersForMetric(text, metricPattern, metricName, context) ==
    LET RECURSIVE pushed(_, _)
        pushed(results, i) ==
            IF i > Len(results) THEN <<>> ELSE results[i] \o pushed(results, i + 1)
    IN [results \in NumberLists |-> sortByConfidence(results)]
           [[sentences \in Seq(Seq(STRING)) |->
                pushed([i \in 1..Len(sentences) |->
                    IF test(sentences[i], metricPattern)
                    THEN [numbers \in NumberLists |->
                             [j \in 1..Len(numbers) |->
                                 [value |-> numbers[j].value,
                                  confidence |-> calculateConfidence(sentences[i], metricName,
                                                                     numbers[j].value),
                                  evidenceSnippet |-> SubSeq(trim(sentences[i]), 1,
                                                             Min2(150, Len(trim(sentences[i]))))]]]
                             [extractNumbersFromText(sentences[i], context)]
                    ELSE <<>>], 1)]
                [splitSentences(text)]]

\* extractFinancialNumbers(text, context): the Map, with an entry for each
\* metric that has numbers, in the order of FINANCIAL_PATTERNS.
extractFinancialNumbers(text, context) ==
    Apply(LAMBDA found : SelectSeq(found, LAMBDA entry : Len(entry[2]) > 0),
          [i \in 1..Len(FINANCIAL_PATTERNS) |->
              <<FINANCIAL_PATTERNS[i][1],
                findNumbersForMetric(text, FINANCIAL_PATTERNS[i][2],
                                     FINANCIAL_PATTERNS[i][1], context)>>])

\* parseFloat of the numbers of a document, negated for the ones in parentheses.
ParsedValues ==
    { Num(0, 1), Num(5, 1), Num(83, 1), Num(1234, 1), Num(2500, 1), Num(90000, 1),
      Num(1, 2), Num(83, 2), Num(-1234, 1), Num(-1, 2), Num(-5, 2) }

\* The calls of convertToBillionsUSD: each value in each context, and 1.2345
\* in billions.
ConvertCalls ==
    [op : {"convert"}, value : ParsedValues,
     context : [documentScale : DocumentScales, currency : Currencies],
     converted : {NULL}]
    \cup [op : {"convert"}, value : {Num(2469, 2000)},
          context : [documentScale : {"billions"}, currency : Currencies],
          converted : {NULL}]

\* The candidates findNumbersForMetric finds in a document.
ExtractedNumbers ==
    { [value |-> Num(1234, 1000), confidence |-> Num(9, 10),
       evidenceSnippet |-> <<"R", "e", "v", "e", "n", "u", "e", " ", "w", "a", "s", " ", "1", ",", "2", "3", "4">>],
      [value |-> Num(0, 1000), confidence |-> Num(7, 10),
       evidenceSnippet |-> <<"S", "a", "l", "e", "s", " ", "o", "f", " ", "1", "2">>],
      [value |-> Num(-2500, 1000), confidence |-> Num(9, 10),
       evidenceSnippet |-> <<"N", "e", "t", " ", "i", "n", "c", "o", "m", "e", " ", "o", "f", " ", "(", "2", ",", "5", "0", "0", ")">>] }

\* What findNumbersForMetric returns for a metric it found numbers for: one
\* or two candidates, sorted by confidence.
SortedNumbers ==
    { sortByConfidence(<<a>>) : a \in ExtractedNumbers }
    \cup { sortByConfidence(<<a, b>>) : a \in ExtractedNumbers, b \in ExtractedNumbers }

\* The keys of FINANCIAL_PATTERNS, in its order.
MetricNames == [i \in 1..Len(FINANCIAL_PATTERNS) |-> FINANCIAL_PATTERNS[i][1]]

\* The metrics two of which a Map of the model holds: revenue, netIncome,
\* cash, debt and bookValue.
PairedMetrics == {1, 2, 4, 5, 10}

\* The Maps mergeExtractionResults is given, as extractFinancialNumbers
\* fills them: no entry; one entry, of any metric; two entries, in the order
\* of FINANCIAL_PATTERNS, the second with a list of one candidate.  And a Map
\* with an empty list, which the loop passes over.
HeuristicResults ==
    { <<>>, << <<MetricNames[1], <<>>>> >> }
    \cup { << <<MetricNames[i], numbers>> >> :
             i \in 1..Len(MetricNames), numbers \in SortedNumbers }
    \cup UNION { { << <<MetricNames[i], first>>, <<MetricNames[j], <<second>>>> >> :
                     j \in { k \in PairedMetrics : k > i },
                     first \in SortedNumbers, second \in ExtractedNumbers } :
                 i \in PairedMetrics }

\* What the AI result holds for a metric: nothing, null, 0, 1.5 or Infinity,
\* which JSON.parse reads 1e999 as.
AiValues == {UNDEFINED, NULL, Num(0, 1), Num(3, 2), Infinity(1)}

\* "companyName" and "cashEquivalents", two fields of ExtractedMetrics, and
\* "totalDebt" and "shareholdersEquity", two fields of FinancialMetrics: the
\* names other records of the repository have for what the Map has under
\* cash, debt and bookValue.
CompanyNameKey == <<"c", "o", "m", "p", "a", "n", "y", "N", "a", "m", "e">>

CashEquivalentsKey == <<"c", "a", "s", "h", "E", "q", "u", "i", "v", "a", "l", "e", "n", "t", "s">>

TotalDebtKey == <<"t", "o", "t", "a", "l", "D", "e", "b", "t">>

ShareholdersEquityKey == <<"s", "h", "a", "r", "e", "h", "o", "l", "d", "e", "r", "s", "E", "q", "u", "i", "t", "y">>

OtherKeys == {CompanyNameKey, CashEquivalentsKey, TotalDebtKey, ShareholdersEquityKey}

\* An AI result: a company name, 1.5 under cashEquivalents, totalDebt and
\* shareholdersEquity, a value or none under the key of each metric of the
\* Map, and with or without a <metric>_confidence of its own for the first
\* of them.
AiResult(metrics, values, own) ==
    LET present == { i \in 1..Len(metrics) : values[i] # UNDEFINED }
    IN [k \in OtherKeys
              \cup { metricKey(metrics[i]) : i \in present }
              \cup (IF own /\ metrics # <<>> THEN {confidenceKey(metrics[1])} ELSE {})
          |-> IF k = CompanyNameKey THEN <<"A", "c", "m", "e">>
              ELSE IF k \in OtherKeys THEN Num(3, 2)
              ELSE IF \E i \in present : metricKey(metrics[i]) = k
              THEN values[CHOOSE i \in present : metricKey(metrics[i]) = k]
              ELSE Num(1, 2)]

\* The documents of the model.
Documents ==
    { <<"T", "o", "t", "a", "l", " ", "r", "e", "v", "e", "n", "u", "e", " ", "₹", "8", ",", "3", "0", "0", " ", "c", "r", "o", "r", "e", "s">>,
      <<"R", "e", "v", "e", "n", "u", "e", " ", "w", "a", "s", " ", "$", "1", ",", "2", "3", "4", " ", "i", "n", " ", "m", "i", "l", "l", "i", "o", "n", "s", ".", " ", "N", "e", "t", " ", "i", "n", "c", "o", "m", "e", " ", "o", "f", " ", "(", "2", "5", "0", ")", " ", "f", "o", "r", " ", "t", "h", "e", " ", "q", "u", "a", "r", "t", "e", "r", " ", "e", "n", "d", "e", "d", " ", "M", "a", "r", "c", "h", " ", "3", "1", ",", " ", "2", "0", "2", "4", ".", " ", "T", "h", "a", "n", "k", "s">>,
      <<"S", "a", "l", "e", "s", " ", "r", "o", "s", "e">>,
      <<"I", "n", "v", "e", "s", "t", "o", "r", "s", " ", "s", "a", "w", " ", "n", "e", "t", " ", "p", "r", "o", "f", "i", "t", " ", "o", "f", " ", "5", " ", "a", "n", "d", " ", "r", "e", "v", "e", "n", "u", "e", " ", "o", "f", " ", "1", "2", ".", "5", " ", "b", "i", "l", "l", "i", "o", "n">>,
      <<"I", "n", " ", "t", "h", "o", "u", "s", "a", "n", "d", "s", " ", "o", "f", " ", "e", "u", "r", "o", "s", ";", " ", "r", "e", "v", "e", "n", "u", "e", " ", "2", ",", "5", "0", "0", " ", "m", "i", "l", "l", "i", "o", "n">>,
      <<>>,
      <<"R", "e", "v", "e", "n", "u", "e", " ", "5", ".", " ", "S", "a", "l", "e", "s", " ", "o", "f", " ", "5", "0", ",", "0", "0", "0", " ", "b", "i", "l", "l", "i", "o", "n", "s", "!", " ", "R", "e", "v", "e", "n", "u", "e", ":", " ", "7", "?", " ", "s", "a", "l", "e", "s", " ", "2", "0", ",", "0", "0", "0", " ", "b", "i", "l", "l", "i", "o", "n", "s">>,
      <<"F", "o", "r", " ", "t", "h", "e", " ", "p", "e", "r", "i", "o", "d", " ", " ", "e", "n", "d", "e", "d", "\n", "J", "u", "n", "e", " ", "3", "0", ".", " ", "N", "e", "t", " ", "e", "a", "r", "n", "i", "n", "g", "s", " ", "£", " ", "(", " ", "1", ",", "2", "0", "0", " ", ")", " ", "i", "n", " ", "l", "a", "k", "h", "s">>,
      <<"F", "i", "s", "c", "a", "l", " ", "Y", "e", "a", "r", " ", "E", "n", "d", "e", "d", " ", "2", "0", "2", "3", " ", "w", "i", "t", "h", " ", "t", "h", "r", "e", "e", " ", "m", "o", "n", "t", "h", "s", " ", "o", "f", " ", "r", "e", "v", "e", "n", "u", "e", " ", "8", "3">>,
      <<"N", "e", "t", " ", " ", "I", "n", "c", "o", "m", "e", " ", ",", " ", "4", "1", ".", "5", " ", "m", "i", "l", "l", "i", "o", "n", " ", "U", "S", "D">>,
      <<"H", "i", "g", "h", "l", "i", "g", "h", "t", "s", ".", " ", "T", "o", "t", "a", "l", " ", "r", "e", "v", "e", "n", "u", "e", " ", "₹", "8", ",", "3", "0", "0", " ", "c", "r", "o", "r", "e", "s", "!", " ", "T", "h", "a", "n", "k", " ", "y", "o", "u">>,
      <<"R", "e", "v", "e", "n", "u", "e", " ", "₹", "5", "0", "0", " ", "c", "r", "o", "r", "e", "s", " ", "(", "$", "6", " ", "m", "i", "l", "l", "i", "o", "n", ")">>,
      <<"T", "o", "t", "a", "l", " ", "d", "e", "b", "t", " ", "(", "\r", "5", ")", " ", "b", "i", "l", "l", "i", "o", "n", ".", " ", "B", "o", "r", "r", "o", "w", "i", "n", "g", "s", " ", "o", "f", " ", "(", " ", "7", " ", ")", " ", "a", "n", "d", " ", "(", "\n", "8", ")">>,
      <<"C", "a", "s", "h", " ", "a", "n", "d", " ", "c", "a", "s", "h", " ", "e", "q", "u", "i", "v", "a", "l", "e", "n", "t", "s", " ", "1", "2", ".", " ", "S", "h", "a", "r", "e", "h", "o", "l", "d", "e", "r", "s", " ", "e", "q", "u", "i", "t", "y", " ", "3", "0", "!", " ", "S", "h", "a", "r", "e", "s", " ", "o", "u", "t", "s", "t", "a", "n", "d", "i", "n", "g", " ", "4">>,
      <<"E", "B", "I", "T", "D", "A", " ", "3", ",", " ", "g", "r", "o", "s", "s", " ", "p", "r", "o", "f", "i", "t", " ", "2", ";", " ", "o", "p", "e", "r", "a", "t", "i", "n", "g", " ", "i", "n", "c", "o", "m", "e", " ", "1", " ", "a", "n", "d", " ", "t", "o", "t", "a", "l", " ", "a", "s", "s", "e", "t", "s", " ", "9", " ", "i", "n", " ", "t", "h", "o", "u", "s", "a", "n", "d", "s", " ", "o", "f", " ", "p", "o", "u", "n", "d", "s">> }

\* The calls of detectDocumentContext and extractFinancialNumbers on a document.
ExtractCalls ==
    [op : {"extract"}, text : Documents, context : {NULL}, heuristicResults : {NULL}]

\* The contexts extractFinancialNumbers is given for a document they were
\* not detected in.
GivenContexts ==
    { [documentScale |-> "units", currency |-> "unknown", period |-> NULL,
       isQuarterly |-> FALSE],
      [documentScale |-> "billions", currency |-> "EUR", period |-> NULL,
       isQuarterly |-> FALSE],
      [documentScale |-> "lakhs", currency |-> "INR",
       period |-> Str(<<"J", "u", "n", "e", " ", "3", "0">>), isQuarterly |-> TRUE] }

\* The calls of extractFinancialNumbers with a context of the caller's.
CandidateCalls ==
    [op : {"candidates"}, text : Documents, context : { Str(c) : c \in GivenContexts },
     heuristicResults : {NULL}]

\* The calls of mergeExtractionResults.
MergeCalls ==
    { [op |-> "merge", heuristicResults |-> h,
       aiResult |-> AiResult([i \in 1..Len(h) |-> h[i][1]], values, own),
       merged |-> NULL] :
        h \in HeuristicResults, values \in [1..2 -> AiValues], own \in BOOLEAN }

\* A call of the NumberParser is about to run.
InitParse ==
    /\ InitCache
    /\ maxCacheSize = 1
    /\ pc = [c \in Callers |-> Idle]
    /\ match = NoName
    /\ calc = NoCall
    /\ parse \in ConvertCalls \cup MergeCalls \cup ExtractCalls \cup CandidateCalls
    /\ kpi = NoCall
    /\ insights = NoCall

\* const convertedValue = this.convertToBillionsUSD(numericValue, context)
RunConvert ==
    /\ parse.op = "convert"
    /\ parse.converted = NULL
    /\ parse' = [parse EXCEPT
                   !.converted = Str(convertToBillionsUSD(parse.value, parse.context))]
    /\ UNCHANGED <<cacheVars, match, calc, kpi, insights>>

\* NumberParser.mergeExtractionResults(heuristicResults, aiResult)
RunMerge ==
    /\ parse.op = "merge"
    /\ parse.merged = NULL
    /\ parse' = [parse EXCEPT
                   !.merged = Str(mergeExtractionResults(parse.heuristicResults,
                                                         parse.aiResult))]
    /\ UNCHANGED <<cacheVars, match, calc, kpi, insights>>

\* const context = NumberParser.detectDocumentContext(text)
RunDetect ==
    /\ parse.op = "extract"
    /\ parse.context = NULL
    /\ parse' = [parse EXCEPT !.context = Str(detectDocumentContext(parse.text))]
    /\ UNCHANGED <<cacheVars, match, calc, kpi, insights>>

\* NumberParser.extractFinancialNumbers(text, context)
RunExtract ==
    /\ parse.op \in {"extract", "candidates"}
    /\ parse.context # NULL
    /\ parse.heuristicResults = NULL
    /\ parse' = [parse EXCEPT
                   !.heuristicResults =
                       Str(extractFinancialNumbers(parse.text, parse.context[1]))]
    /\ UNCHANGED <<cacheVars, match, calc, kpi, insights>>

NextParse == RunConvert \/ RunMerge \/ RunDetect \/ RunExtract

\* The NumberParser on every call of the model.
SpecParse == InitParse /\ [][NextParse]_vars

-----------------------------------------------------------------------------
(* KPINormalizer: metric labels and metric values.                          *)
(*                                                                         *)
(* synonymMap is a sequence of <<name, synonyms>> in the order of the keys  *)
(* of the object, names being sequences of characters, in the order        *)
(* Object.entries visits them in: array indices first, ascending, then the *)
(* other names as they were added.  A                                      *)
(* value handed to normalizeMetricValue is [type, value] with the type     *)
(* typeof gives it, null having a type of its own.  kpi.added is the       *)
(* history of the calls of addSynonym that returned.                      *)

\* private synonymMap: KPISynonymMap = { ... }
synonymMap ==
    << <<<<"r", "e", "v", "e", "n", "u", "e">>,
         << <<"t", "o", "t", "a", "l", " ", "r", "e", "v", "e", "n", "u", "e">>,
            <<"n", "e", "t", " ", "r", "e", "v", "e", "n", "u", "e">>,
            <<"o", "p", "e", "r", "a", "t", "i", "n", "g", " ", "r", "e", "v", "e", "n", "u", "e">>,
            <<"t", "o", "t", "a", "l", " ", "n", "e", "t", " ", "s", "a", "l", "e", "s">>,
            <<"n", "e", "t", " ", "s", "a", "l", "e", "s">>,
            <<"s", "a", "l", "e", "s">>,
            <<"t", "o", "t", "a", "l", " ", "s", "a", "l", "e", "s">>,
            <<"r", "e", "v", "e", "n", "u", "e", "s">> >> >>,
       <<<<"n", "e", "t", "I", "n", "c", "o", "m", "e">>,
         << <<"n", "e", "t", " ", "i", "n", "c", "o", "m", "e">>,
            <<"n", "e", "t", " ", "p", "r", "o", "f", "i", "t">>,
            <<"n", "e", "t", " ", "e", "a", "r", "n", "i", "n", "g", "s">>,
            <<"p", "r", "o", "f", "i", "t", " ", "a", "f", "t", "e", "r", " ", "t", "a", "x">>,
            <<"n", "e", "t", " ", "i", "n", "c", "o", "m", "e", " ", "a", "f", "t", "e", "r", " ", "t", "a", "x">>,
            <<"i", "n", "c", "o", "m", "e", " ", "a", "f", "t", "e", "r", " ", "t", "a", "x">>,
            <<"n", "e", "t", " ", "p", "r", "o", "f", "i", "t", " ", "a", "f", "t", "e", "r", " ", "t", "a", "x">> >> >>,
       <<<<"e", "b", "i", "t", "d", "a">>,
         << <<"e", "b", "i", "t", "d", "a">>,
            <<"a", "d", "j", "u", "s", "t", "e", "d", " ", "e", "b", "i", "t", "d", "a">>,
            <<"a", "d", "j", ".", " ", "e", "b", "i", "t", "d", "a">>,
            <<"e", "a", "r", "n", "i", "n", "g", "s", " ", "b", "e", "f", "o", "r", "e", " ", "i", "n", "t", "e", "r", "e", "s", "t", " ", "t", "a", "x", " ", "d", "e", "p", "r", "e", "c", "i", "a", "t", "i", "o", "n", " ", "a", "m", "o", "r", "t", "i", "z", "a", "t", "i", "o", "n">>,
            <<"o", "p", "e", "r", "a", "t", "i", "n", "g", " ", "i", "n", "c", "o", "m", "e", " ", "b", "e", "f", "o", "r", "e", " ", "d", "e", "p", "r", "e", "c", "i", "a", "t", "i", "o", "n">> >> >>,
       <<<<"t", "o", "t", "a", "l", "A", "s", "s", "e", "t", "s">>,
         << <<"t", "o", "t", "a", "l", " ", "a", "s", "s", "e", "t", "s">>,
            <<"a", "s", "s", "e", "t", "s">>,
            <<"t", "o", "t", "a", "l", " ", "a", "s", "s", "e", "t">>,
            <<"c", "o", "n", "s", "o", "l", "i", "d", "a", "t", "e", "d", " ", "a", "s", "s", "e", "t", "s">> >> >>,
       <<<<"c", "a", "s", "h", "E", "q", "u", "i", "v", "a", "l", "e", "n", "t", "s">>,
         << <<"c", "a", "s", "h", " ", "a", "n", "d", " ", "c", "a", "s", "h", " ", "e", "q", "u", "i", "v", "a", "l", "e", "n", "t", "s">>,
            <<"c", "a", "s", "h", " ", "e", "q", "u", "i", "v", "a", "l", "e", "n", "t", "s">>,
            <<"c", "a", "s", "h", " ", "r", "e", "s", "e", "r", "v", "e", "s">>,
            <<"c", "a", "s", "h", " ", "a", "n", "d", " ", "s", "h", "o", "r", "t", "-", "t", "e", "r", "m", " ", "i", "n", "v", "e", "s", "t", "m", "e", "n", "t", "s">>,
            <<"c", "a", "s", "h", " ", "a", "n", "d", " ", "m", "a", "r", "k", "e", "t", "a", "b", "l", "e", " ", "s", "e", "c", "u", "r", "i", "t", "i", "e", "s">> >> >>,
       <<<<"d", "e", "b", "t">>,
         << <<"t", "o", "t", "a", "l", " ", "d", "e", "b", "t">>,
            <<"l", "o", "n", "g", "-", "t", "e", "r", "m", " ", "d", "e", "b", "t">>,
            <<"s", "h", "o", "r", "t", "-", "t", "e", "r", "m", " ", "d", "e", "b", "t">>,
            <<"d", "e", "b", "t", " ", "o", "b", "l", "i", "g", "a", "t", "i", "o", "n", "s">>,
            <<"b", "o", "r", "r", "o", "w", "i", "n", "g", "s">>,
            <<"t", "o", "t", "a", "l", " ", "b", "o", "r", "r", "o", "w", "i", "n", "g", "s">> >> >>,
       <<<<"p", "r", "o", "f", "i", "t", "M", "a", "r", "g", "i", "n">>,
         << <<"p", "r", "o", "f", "i", "t", " ", "m", "a", "r", "g", "i", "n">>,
            <<"n", "e", "t", " ", "p", "r", "o", "f", "i", "t", " ", "m", "a", "r", "g", "i", "n">>,
            <<"n", "e", "t", " ", "m", "a", "r", "g", "i", "n">>,
            <<"o", "p", "e", "r", "a", "t", "i", "n", "g", " ", "m", "a", "r", "g", "i", "n">> >> >> >>

\* The names of the table, in its order.
keys(map) == [i \in 1..Len(map) |-> map[i][1]]

\* findStandardKPI with the names visited from the last to the first.
findStandardKPILast(map, text) ==
    LET lowercaseText == trim(toLowerCase(text))
        found == { i \in 1..Len(map) :
                     \E k \in 1..Len(map[i][2]) : includes(lowercaseText, map[i][2][k]) }
    IN IF found = {} THEN NULL
       ELSE Str(map[CHOOSE i \in found : \A j \in found : i >= j][1])

\* findStandardKPI(text) on a table.
findStandardKPI(map, text) ==
    LET lowercaseText == trim(toLowerCase(text))
        found == { i \in 1..Len(map) :
                     \E k \in 1..Len(map[i][2]) : includes(lowercaseText, map[i][2][k]) }
    IN IF found = {} THEN NULL
       ELSE Str(map[CHOOSE i \in found : \A j \in found : i <= j][1])

\* The digit a character stands for.
digit(c) == CHOOSE d \in 0..9 : DigitChars[d + 1] = c

\* a < b, for two numerals without leading zeros.
numeralLess(a, b) ==
    \/ Len(a) < Len(b)
    \/ /\ Len(a) = Len(b)
       /\ \E i \in 1..Len(a) :
             SubSeq(a, 1, i - 1) = SubSeq(b, 1, i - 1) /\ digit(a[i]) < digit(b[i])

\* 2^32 - 2, the greatest array index.
MaxArrayIndex == <<"4", "2", "9", "4", "9", "6", "7", "2", "9", "4">>

\* The name is an array index: the canonical numeral of an integer from 0
\* to 2^32 - 2.
isArrayIndex(name) ==
    /\ Len(name) >= 1
    /\ Range(name) \subseteq Range(DigitChars)
    /\ Len(name) = 1 \/ name[1] # "0"
    /\ ~numeralLess(MaxArrayIndex, name)

\* this.synonymMap[standardKPI] = [] for a name that is not a key: the keys
\* of the object afterwards, array indices in ascending order before the
\* other names, which are in the order of their creation.
createProperty(map, standardKPI) ==
    IF isArrayIndex(standardKPI)
    THEN LET before == Cardinality({ i \in 1..Len(map) :
                                       /\ isArrayIndex(map[i][1])
                                       /\ numeralLess(map[i][1], standardKPI) })
         IN SubSeq(map, 1, before) \o << <<standardKPI, <<>>>> >>
              \o SubSeq(map, before + 1, Len(map))
    ELSE Append(map, <<standardKPI, <<>>>>)

\* What a call that threw a TypeError leaves.
TypeError == <<"TypeError">>

\* addSynonym(standardKPI, synonym): the table after the call and what the
\* call returned or threw.  this.synonymMap[standardKPI] reads the prototype
\* chain: for a name that is not a key and that Object.prototype has, it is
\* a function or Object.prototype itself, which is truthy and has no push,
\* and the call throws a TypeError before anything is written.
addSynonym(map, standardKPI, synonym) ==
    IF standardKPI \notin Range(keys(map)) /\ standardKPI \in DOMAIN ObjectPrototype
    THEN [synonymMap |-> map, result |-> TypeError]
    ELSE LET with == IF standardKPI \in Range(keys(map)) THEN map
                     ELSE createProperty(map, standardKPI)
         IN [synonymMap |-> [i \in 1..Len(with) |->
                               IF with[i][1] = standardKPI
                               THEN <<standardKPI, Append(with[i][2], toLowerCase(synonym))>>
                               ELSE with[i]],
             result |-> UNDEFINED]

\* value.replace(/[$,\s]/g, '')
cleanValue(value) == SelectSeq(value, LAMBDA c : c \notin {"$", ","} /\ ~IsSpace(c))

\* cleanValue.replace(/[^\d.-]/g, '')
numericChars(cleaned) ==
    SelectSeq(cleaned, LAMBDA c : c \in Range(DigitChars) \cup {".", "-"})

\* isNaN(num) ? null : num
nullIfNaN(num) == IF num = NaNumber THEN NULL ELSE num

\* normalizeMetricValue(value)
normalizeMetricValue(value) ==
    IF value.type \in {"null", "undefined"} THEN NULL
    ELSE IF value.type = "number" THEN value.value
    ELSE IF value.type = "string"
         THEN LET cleaned == cleanValue(value.value)
                  lower == toLowerCase(cleaned)
              IN IF includes(lower, <<"b">>)
                    \/ includes(lower, <<"b", "i", "l", "l", "i", "o", "n">>)
                 THEN nullIfNaN(parseFloat(numericChars(cleaned)))
                 ELSE IF includes(lower, <<"m">>)
                         \/ includes(lower, <<"m", "i", "l", "l", "i", "o", "n">>)
                 THEN LET num == parseFloat(numericChars(cleaned))
                      IN IF num = NaNumber THEN NULL
                         ELSE fromDouble(dblDiv(toDouble(num), dblOfInt(1000)),
                                         num[1], num[2] * 1000)
                 ELSE nullIfNaN(parseFloat(cleaned))
    ELSE NULL

\* The labels findStandardKPI is called with.
Labels ==
    { <<"T", "o", "t", "a", "l", " ", "R", "e", "v", "e", "n", "u", "e">>,
      <<"r", "e", "v">>,
      <<" ", " ", "N", "E", "T", " ", "S", "A", "L", "E", "S", " ", "(", "i", "n", " ", "m", "i", "l", "l", "i", "o", "n", "s", ")", " ">>,
      <<"N", "e", "t", " ", "I", "n", "c", "o", "m", "e", " ", "A", "f", "t", "e", "r", " ", "T", "a", "x">>,
      <<"O", "p", "e", "r", "a", "t", "i", "n", "g", " ", "i", "n", "c", "o", "m", "e", " ", "b", "e", "f", "o", "r", "e", " ", "d", "e", "p", "r", "e", "c", "i", "a", "t", "i", "o", "n">>,
      <<"a", "s", "s", "e", "t", "s">>,
      <<"H", "e", "a", "d", "c", "o", "u", "n", "t">>,
      <<>>,
      <<"S", "a", "l", "e", "s", " ", "t", "u", "r", "n", "o", "v", "e", "r">>,
      <<"O", "t", "h", "e", "r", " ", "i", "n", "c", "o", "m", "e">>,
      <<" ", "c", "a", "s", "h", " ">>,
      <<"S", "a", "l", "e", "s", " ", "a", "n", "d", " ", "t", "o", "t", "a", "l", " ", "d", "e", "b", "t">> }

\* The names and the synonyms addSynonym is called with: a key of the
\* table, a new name, two names Object.prototype has, two array indices and
\* a numeral that is none.
AddedKPIs ==
    { <<"r", "e", "v", "e", "n", "u", "e">>,
      <<"t", "u", "r", "n", "o", "v", "e", "r">>,
      <<"c", "o", "n", "s", "t", "r", "u", "c", "t", "o", "r">>,
      <<"_", "_", "p", "r", "o", "t", "o", "_", "_">>,
      <<"1", "0">>,
      <<"9">>,
      <<"0", "1">> }

AddedSynonyms ==
    { <<"T", "u", "r", "n", "o", "v", "e", "r">>,
      <<" ", "I", "n", "c", "o", "m", "e", " ">> }

\* At most MaxSynonyms calls of addSynonym are made.
MaxSynonyms == 2

\* The values normalizeMetricValue is called with: numbers, NaN and the
\* infinities among them, strings, null, undefined, a boolean and an object.
MetricValues ==
    [type : {"number"},
     value : {Num(0, 1), Num(3, 2), Num(-5, 1), NaNumber, Infinity(1), Infinity(-1)}]
    \cup [type : {"string"},
          value : { <<"$", "1", ",", "2", "3", "4", ".", "5">>,
                    <<"1", ".", "5", "b">>,
                    <<"2", " ", "B", "i", "l", "l", "i", "o", "n">>,
                    <<"7", "5", "0", "m">>,
                    <<"7", "5", "0", " ", "m", "i", "l", "l", "i", "o", "n">>,
                    <<"1", "2", ".", "5">>,
                    <<"a", "b", "c">>,
                    <<>>,
                    <<"b">>,
                    <<"E", "B", "I", "T", "D", "A", " ", "5", "m">>,
                    <<"I", "n", "f", "i", "n", "i", "t", "y">>,
                    <<"-", "I", "n", "f", "i", "n", "i", "t", "y">>,
                    <<"N", "/", "A">>,
                    <<"1", "e", "3">>,
                    <<"-">>,
                    <<"5", " ", "m", "b">>,
                    <<"1", "-", "2", "b">> }]
    \cup [type : {"null", "undefined", "boolean", "object"}, value : {NULL}]

\* new KPINormalizer()
InitKpi ==
    /\ InitCache
    /\ maxCacheSize = 1
    /\ pc = [c \in Callers |-> Idle]
    /\ match = NoName
    /\ calc = NoCall
    /\ parse = NoCall
    /\ kpi = [synonymMap |-> synonymMap, added |-> <<>>, op |-> "new", input |-> NULL,
              result |-> NULL]
    /\ insights = NoCall

\* kpiNormalizer.findStandardKPI(label)
FindStandardKPI ==
    /\ \E label \in Labels :
          kpi' = [kpi EXCEPT !.op = "findStandardKPI", !.input = label,
                             !.result = findStandardKPI(kpi.synonymMap, label)]
    /\ UNCHANGED <<cacheVars, match, calc, parse, insights>>

\* kpiNormalizer.addSynonym(standardKPI, synonym)
AddSynonym ==
    /\ Len(kpi.added) < MaxSynonyms
    /\ \E standardKPI \in AddedKPIs, synonym \in AddedSynonyms :
          kpi' = Apply(LAMBDA call :
                           [synonymMap |-> call.synonymMap,
                            added |-> IF call.result = TypeError THEN kpi.added
                                      ELSE Append(kpi.added, <<standardKPI, synonym>>),
                            op |-> "addSynonym", input |-> <<standardKPI, synonym>>,
                            result |-> call.result],
                       addSynonym(kpi.synonymMap, standardKPI, synonym))
    /\ UNCHANGED <<cacheVars, match, calc, parse, insights>>

\* kpiNormalizer.normalizeMetricValue(value)
NormalizeMetricValue ==
    /\ \E value \in MetricValues :
          kpi' = [kpi EXCEPT !.op = "normalizeMetricValue", !.input = value,
                             !.result = normalizeMetricValue(value)]
    /\ UNCHANGED <<cacheVars, match, calc, parse, insights>>

NextKpi == FindStandardKPI \/ AddSynonym \/ NormalizeMetricValue

\* A KPINormalizer and the calls made on it.
SpecKpi == InitKpi /\ [][NextKpi]_vars

-----------------------------------------------------------------------------
(* OpenAIService: comparison insights.                                      *)
(*                                                                         *)
(* generateComparisonInsights awaits OpenAI and, in its catch, Gemini; the *)
(* model has one step for each outcome of each provider.  The repository   *)
(* holds the method three times: openaiService.ts:147-198, whose catch     *)
(* throws whatever the error, and openaiService.ts:550-623 and             *)
(* part_007:382-454, which await Gemini and differ in the catch of that    *)
(* call; insights.impl says which one runs.  The metrics of a company are  *)
(* a record of its name and four of its metrics, and an insight is its     *)
(* type, its impact and the names of its companies.  An error              *)
(* is a record of what isConnectivityError reads: whether it is an Error,  *)
(* the name of its constructor, its status (-1 when it has none), its code *)
(* ("" when it has none), its message and its stack (<<>> when it has      *)
(* none).                                                                  *)

\* const connectivityPatterns = [...]
connectivityPatterns ==
    { <<"e", "n", "o", "t", "f", "o", "u", "n", "d">>,
      <<"c", "o", "n", "n", "e", "c", "t", "i", "o", "n", " ", "e", "r", "r", "o", "r">>,
      <<"t", "i", "m", "e", "o", "u", "t">>,
      <<"n", "e", "t", "w", "o", "r", "k", " ", "e", "r", "r", "o", "r">>,
      <<"c", "o", "n", "n", "e", "c", "t", "i", "o", "n", " ", "r", "e", "f", "u", "s", "e", "d">>,
      <<"e", "c", "o", "n", "n", "r", "e", "s", "e", "t">>,
      <<"e", "t", "i", "m", "e", "d", "o", "u", "t">>,
      <<"e", "c", "o", "n", "n", "r", "e", "f", "u", "s", "e", "d">>,
      <<"e", "a", "i", "_", "a", "g", "a", "i", "n">>,
      <<"a", "b", "o", "r", "t", "e", "d">> }

\* const connectivityCodes = [...]
connectivityCodes == {"ENOTFOUND", "ETIMEDOUT", "ECONNRESET", "ECONNREFUSED", "EAI_AGAIN"}

\* this.isConnectivityError(error)
isConnectivityError(error) ==
    IF ~error.isError THEN FALSE
    ELSE LET message == toLowerCase(error.message)
             stack == toLowerCase(error.stack)
             hasConnectivityError ==
                 \E pattern \in connectivityPatterns :
                     includes(message, pattern) \/ includes(stack, pattern)
         IN IF /\ error.name = "APIError" \/ error.status # -1
               /\ error.status \in {401, 408} \cup 500..599
            THEN TRUE
            ELSE IF error.name = "AuthenticationError" \/ error.code = "invalid_api_key" THEN TRUE
            ELSE IF error.code \in connectivityCodes THEN TRUE
            ELSE hasConnectivityError

\* A metric is neither null nor undefined, and it is truthy.
notNullish(x) == x # NULL /\ x # UNDEFINED

truthy(x) == notNullish(x) /\ x[1] # 0

\* x || 0 for a metric that is a number, as a double: 0 for 0 and for NaN.
orZero(x) == IF x[1] = 0 THEN DblZero ELSE toDouble(x)

\* x < y for two doubles, the infinities among them, that are not NaN.
extendedLess(x, y) ==
    IF x[4] = 1024 \/ y[4] = 1024
    THEN \/ x = DblInfinity(-1) /\ y # DblInfinity(-1)
         \/ y = DblInfinity(1) /\ x # DblInfinity(1)
    ELSE dblLess(x, y)

\* (b[field] || 0) - (a[field] || 0) < 0: the comparator of the sorts, called
\* with a and b, puts a first.  The difference of two infinities of one sign
\* is NaN, which sort takes for 0.
comesFirst(a, b, field) == extendedLess(orZero(b[field]), orZero(a[field]))

\* [...companies].sort((a, b) => (b[field] || 0) - (a[field] || 0)): the sort
\* is stable.
RECURSIVE insertByMetric(_, _, _)
insertByMetric(sorted, company, field) ==
    IF sorted = <<>> THEN <<company>>
    ELSE IF comesFirst(company, Head(sorted), field) THEN <<company>> \o sorted
    ELSE <<Head(sorted)>> \o insertByMetric(Tail(sorted), company, field)

RECURSIVE sortByMetric(_, _)
sortByMetric(companies, field) ==
    IF companies = <<>> THEN <<>>
    ELSE insertByMetric(sortByMetric(SubSeq(companies, 1, Len(companies) - 1), field),
                        companies[Len(companies)], field)

\* const highest = sorted[0]
highest(sorted) == sorted[1]

\* const lowest = sorted[sorted.length - 1]
lowest(sorted) == sorted[Len(sorted)]

\* x > 0 ? then : otherwise, for a number x.
ifPositive(x, then, otherwise) == IF x[1] > 0 THEN then ELSE otherwise

\* this.generateBasicInsights(metrics): the insights, in order, and which of
\* the two summaries.
generateBasicInsights(metrics) ==
    LET withData(field) == SelectSeq(metrics, LAMBDA m : notNullish(m[field]))
        sorted(field) == sortByMetric(withData(field), field)
        pair(field, type, impact(_)) ==
            Apply(LAMBDA s :
                      IF Len(s) >= 2 /\ truthy(highest(s)[field]) /\ truthy(lowest(s)[field])
                      THEN << [type |-> type, impact |-> impact(highest(s)[field]),
                               companies |-> <<highest(s).companyName, lowest(s).companyName>>] >>
                      ELSE <<>>,
                  sorted(field))
        single(field, type, impact(_)) ==
            Apply(LAMBDA s :
                      IF Len(s) >= 2 /\ truthy(highest(s)[field])
                      THEN << [type |-> type, impact |-> impact(highest(s)[field]),
                               companies |-> <<highest(s).companyName>>] >>
                      ELSE <<>>,
                  sorted(field))
    IN IF Len(metrics) < 2
       THEN [insights |-> <<>>, summary |-> "Insufficient data for comparison analysis."]
       ELSE [insights |-> pair("revenue", "revenue", LAMBDA x : "positive")
                          \o pair("netIncome", "profitability",
                                  LAMBDA x : ifPositive(x, "positive", "neutral"))
                          \o single("yoyGrowth", "growth",
                                    LAMBDA x : ifPositive(x, "positive", "negative"))
                          \o single("ebitda", "efficiency", LAMBDA x : "positive"),
             summary |-> "Basic comparison analysis"]

\* The three generateComparisonInsights of the repository, by the line each
\* begins at.
Implementations == {"openaiService.ts:147", "openaiService.ts:550", "part_007:382"}

\* What OpenAI fails with; what Gemini fails with is only logged.
Errors ==
    [isError : {TRUE}, name : {"Error", "APIError", "AuthenticationError"},
     status : {-1, 400, 401, 408, 429, 500, 599, 600},
     code : {"", "invalid_api_key", "ETIMEDOUT", "rate_limit_exceeded"},
     message : { <<"R", "e", "q", "u", "e", "s", "t", " ", "t", "i", "m", "e", "d", " ", "o", "u", "t", ".">>,
                 <<"C", "o", "n", "n", "e", "c", "t", "i", "o", "n", " ", "e", "r", "r", "o", "r", ".">>,
                 <<"U", "n", "e", "x", "p", "e", "c", "t", "e", "d", " ", "t", "o", "k", "e", "n", " ", "<", " ", "i", "n", " ", "J", "S", "O", "N", " ", "a", "t", " ", "p", "o", "s", "i", "t", "i", "o", "n", " ", "0">>,
                 <<"4", "2", "9", " ", "R", "a", "t", "e", " ", "l", "i", "m", "i", "t", " ", "r", "e", "a", "c", "h", "e", "d">> },
     stack : { <<>>,
               <<"E", "r", "r", "o", "r", ":", " ", "4", "2", "9", " ", "R", "a", "t", "e", " ", "l", "i", "m", "i", "t", " ", "r", "e", "a", "c", "h", "e", "d", "\n", " ", " ", " ", " ", "a", "t", " ", "l", "i", "s", "t", "O", "n", "T", "i", "m", "e", "o", "u", "t", " ", "(", "n", "o", "d", "e", ":", "i", "n", "t", "e", "r", "n", "a", "l", "/", "t", "i", "m", "e", "r", "s", ":", "5", "6", "9", ":", "1", "7", ")">> }]
    \cup { [isError |-> FALSE, name |-> "String", status |-> -1, code |-> "",
            message |-> <<>>, stack |-> <<>>] }

\* The metrics of a company: each one null, undefined, 0, 2.5, -1, NaN or
\* an infinity.
CompanyMetrics(name) ==
    { [companyName |-> name, revenue |-> r, netIncome |-> n, yoyGrowth |-> g,
       ebitda |-> UNDEFINED] :
        r \in {NULL, Num(0, 1), Num(5, 2), NaNumber, Infinity(-1)},
        n \in {NULL, Num(-1, 1)}, g \in {UNDEFINED, Num(5, 2)} }
    \cup { [companyName |-> name, revenue |-> Num(1, 1), netIncome |-> Num(5, 2),
            yoyGrowth |-> Num(0, 1), ebitda |-> Num(5, 2)] }

\* A company all of whose metrics are one number.
Uniform(name, x) ==
    [companyName |-> name, revenue |-> x, netIncome |-> x, yoyGrowth |-> x, ebitda |-> x]

\* The metrics of a call: of no company, of one, of two, or of three whose
\* metrics are 2.5, NaN or an infinity.
MetricsLists ==
    {<<>>} \cup { <<a>> : a \in {CHOOSE m \in CompanyMetrics("A") : TRUE} }
    \cup { <<a, b>> : a \in CompanyMetrics("A"),
                      b \in { [companyName |-> "B", revenue |-> Num(1, 1),
                               netIncome |-> Num(5, 2), yoyGrowth |-> Num(0, 1),
                               ebitda |-> Num(5, 2)],
                              [companyName |-> "B", revenue |-> Num(5, 2), netIncome |-> NULL,
                               yoyGrowth |-> UNDEFINED, ebitda |-> UNDEFINED],
                              [companyName |-> "B", revenue |-> Infinity(1),
                               netIncome |-> NaNumber, yoyGrowth |-> NaNumber,
                               ebitda |-> Num(0, 1)] } }
    \cup { <<Uniform("A", x), Uniform("B", y), Uniform("C", z)>> :
             x \in {Num(5, 2), NaNumber, Infinity(1), Infinity(-1)},
             y \in {Num(5, 2), NaNumber, Infinity(-1)},
             z \in {Num(5, 2), Infinity(1), Infinity(-1)} }

\* openaiService.generateComparisonInsights(metrics) has been called and
\* awaits OpenAI.
InitInsights ==
    /\ InitCache
    /\ maxCacheSize = 1
    /\ pc = [c \in Callers |-> Idle]
    /\ match = NoName
    /\ calc = NoCall
    /\ parse = NoCall
    /\ kpi = NoCall
    /\ insights \in [impl : Implementations, metrics : MetricsLists, at : {"openai"},
                     error : {NULL}, geminiFailed : {FALSE}, geminiCalls : {0},
                     outcome : {NULL}]

\* The value or the error the call ends with.
Resolved(from, value) == Str([kind |-> "returned", from |-> from, value |-> value])

Rejected == Str([kind |-> "thrown", from |-> "openai", value |-> NULL])

\* OpenAI answers and the answer parses: return result.
OpenAIReturns ==
    /\ insights.at = "openai"
    /\ insights' = [insights EXCEPT !.at = "done", !.outcome = Resolved("openai", NULL)]
    /\ UNCHANGED <<cacheVars, match, calc, parse, kpi>>

\* OpenAI fails, or its answer does not parse: the catch block, up to the
\* await of Gemini or to the throw.  The catch at openaiService.ts:194
\* throws whatever the error.
OpenAIThrows ==
    /\ insights.at = "openai"
    /\ \E error \in Errors :
          insights' =
              IF insights.impl # "openaiService.ts:147" /\ isConnectivityError(error)
              THEN [insights EXCEPT !.error = Str(error), !.at = "gemini",
                                    !.geminiCalls = insights.geminiCalls + 1]
              ELSE [insights EXCEPT !.error = Str(error), !.at = "done", !.outcome = Rejected]
    /\ UNCHANGED <<cacheVars, match, calc, parse, kpi>>

\* return await geminiService.generateComparisonInsights(metrics)
GeminiReturns ==
    /\ insights.at = "gemini"
    /\ insights' = [insights EXCEPT !.at = "done", !.outcome = Resolved("gemini", NULL)]
    /\ UNCHANGED <<cacheVars, match, calc, parse, kpi>>

\* catch (geminiError): the basic insights in part_007, a throw in
\* openaiService.ts.
GeminiThrows ==
    /\ insights.at = "gemini"
    /\ insights' =
          IF insights.impl = "part_007:382"
          THEN [insights EXCEPT
                  !.geminiFailed = TRUE, !.at = "done",
                  !.outcome = Resolved("basic", generateBasicInsights(insights.metrics))]
          ELSE [insights EXCEPT !.geminiFailed = TRUE, !.at = "done", !.outcome = Rejected]
    /\ UNCHANGED <<cacheVars, match, calc, parse, kpi>>

NextInsights == OpenAIReturns \/ OpenAIThrows \/ GeminiReturns \/ GeminiThrows

\* A call of each generateComparisonInsights.
SpecInsights == InitInsights /\ [][NextInsights]_vars

-----------------------------------------------------------------------------
(* Properties of WebDataCache.                                             *)

\* A step that is a cache operation (not the clock, not a stutter).
OpStep ==
    <<cache, accessOrder, accessCounter, lastOp>>' # <<cache, accessOrder, accessCounter, lastOp>>

GetStep(k) == OpStep /\ lastOp'.op = "get" /\ lastOp'.key = k

SetStep(k) == OpStep /\ lastOp'.op = "set" /\ lastOp'.key = k

SweepStep == OpStep /\ lastOp'.op = "sweep"

Expired(k) == k \in DOMAIN cache /\ now >= cache[k].expiresAt

\* C1: a set on a cache that holds maxCacheSize entries removes exactly one
\* entry before it inserts, the one whose last access (set or get hit) is the
\* oldest: the head of the access history lru.  Every other entry stays as
\* it was, and the history lists exactly the present keys.
C1_SetEvictsLeastRecentlyAccessed ==
    [][\A k \in Keys :
         (SetStep(k) /\ Cardinality(DOMAIN cache) = maxCacheSize) =>
             /\ Range(lru) = DOMAIN cache
             /\ lastOp'.evicted = <<Head(lru), cache[Head(lru)].timestamp>>
             /\ DOMAIN cache' = ((DOMAIN cache) \ {Head(lru)}) \cup {k}
             /\ \A x \in (DOMAIN cache') \ {k} : cache'[x] = cache[x]]_vars

\* C1 witness: with maxCacheSize = 2 a set of a third key evicted an entry,
\* while an entry stored before the evicted one, kept alive by a get hit, is
\* still present and not expired.
C1_Witness ==
    /\ lastOp.op = "set"
    /\ lastOp.evicted # NULL
    /\ maxCacheSize = 2
    /\ lastOp.evicted[1] \notin DOMAIN cache
    /\ \E x \in DOMAIN cache :
         /\ x # lastOp.key
         /\ cache[x].timestamp < lastOp.evicted[2]
         /\ now < cache[x].expiresAt

\* C2: a get that directly follows set(q, d), before the TTL of that set has
\* elapsed (C3: the entry's expiresAt is the set time plus the TTL), returns
\* d, whatever the cache held before the set.
C2_GetAfterSetReturnsData ==
    [][\A k \in Keys :
         (/\ lastOp.op = "set"
          /\ lastOp.key = k
          /\ k \in DOMAIN cache => now < cache[k].timestamp + TTL
          /\ GetStep(k)) => lastOp'.data = lastOp.data]_vars

\* C2 witness: a later get returned the payload of a set that replaced an
\* entry in a full cache.
C2_Witness ==
    /\ lastOp.op = "get"
    /\ lastOp.log = "HIT"
    /\ lastOp.data # NULL
    /\ Cardinality(DOMAIN cache) = maxCacheSize
    /\ cache[lastOp.key].timestamp < now

\* C3: expiresAt is the set time plus the TTL; a get at or after it returns
\* null and removes the entry; a get before it leaves expiresAt alone; a get
\* of a key with no entry returns null.
C3_ExpiredGetReturnsNull ==
    [][\A k \in Keys :
         /\ SetStep(k) => cache'[k].expiresAt = now + TTL
         /\ GetStep(k) =>
              /\ k \notin DOMAIN cache => lastOp'.data = NULL /\ cache' = cache
              /\ Expired(k) => lastOp'.data = NULL /\ k \notin DOMAIN cache'
              /\ (k \in DOMAIN cache /\ ~Expired(k)) =>
                    /\ k \in DOMAIN cache'
                    /\ cache'[k] = cache[k]]_vars

\* C3 witness: a get found its entry exactly at expiresAt, before any sweep.
C3_Witness ==
    /\ lastOp.op = "get"
    /\ lastOp.log = "EXPIRED"
    /\ lastOp.data = NULL
    /\ lastOp.key \notin DOMAIN cache

\* C4: through searchFinancialDataWeb no entry ever holds null, and a lookup
\* that fails stores nothing, so a lookup of a query that has no entry after
\* a failure is a miss and runs the search again.
C4_FailuresAreNotCached ==
    /\ [](\A k \in DOMAIN cache : cache[k].data # NULL)
    /\ [][/\ (OpStep /\ lastOp'.op = "error") => cache' = cache
          /\ \A c \in Callers :
               (/\ lastOp.op = "error"
                /\ lastOp.key \notin DOMAIN cache
                /\ GetStep(lastOp.key)
                /\ pc'[c] # pc[c]) => pc'[c].at = "miss"]_vars

\* C4 witness: a lookup failed and its query has no entry, while another
\* query's successful result is cached.
C4_Witness ==
    /\ lastOp.op = "error"
    /\ lastOp.key \notin DOMAIN cache
    /\ cache # <<>>

\* C5: the cache never holds more than maxCacheSize entries.
C5_Bounded == Cardinality(DOMAIN cache) <= maxCacheSize

\* C5 witness: a set into a full cache, which is full again afterwards.
C5_Witness ==
    /\ lastOp.op = "set"
    /\ lastOp.evicted # NULL
    /\ Cardinality(DOMAIN cache) = maxCacheSize

\* C6: under every interleaving the entry map and the access-order map have
\* the same keys, and no two keys carry the same access value.
C6_MapsConsistent ==
    /\ DOMAIN accessOrder = DOMAIN cache
    /\ \A x, y \in DOMAIN accessOrder : accessOrder[x] = accessOrder[y] => x = y
    /\ \A x \in DOMAIN accessOrder : accessOrder[x] \in 1..accessCounter

\* C6 witness: a delete or a sweep removed an entry and left another one,
\* whose access value is not the latest.
C6_Witness ==
    /\ lastOp.op \in {"delete", "sweep"}
    /\ lastOp.log # ""
    /\ \E x \in DOMAIN cache : accessOrder[x] < accessCounter

\* C7: only a set of a key makes that key present, and a get of an absent
\* key returns null.
C7_AbsentUntilSet ==
    [][\A k \in Keys :
         /\ (k \notin DOMAIN cache /\ k \in DOMAIN cache') => SetStep(k)
         /\ (k \notin DOMAIN cache /\ GetStep(k)) => lastOp'.data = NULL]_vars

\* C7 witness: the one entry set since construction or the last clear was
\* removed, and a get since then missed.
C7_Witness ==
    /\ lastOp.op = "get"
    /\ lastOp.log = "MISS"
    /\ accessCounter = 1
    /\ cache = <<>>

\* C8: a sweep removes exactly the entries whose expiresAt has been reached
\* and leaves the others as they are; with the timer firing, an expired
\* entry does not stay.
C8_SweepRemovesExpired ==
    /\ [][SweepStep =>
            /\ DOMAIN cache' = { k \in DOMAIN cache : now < cache[k].expiresAt }
            /\ \A k \in DOMAIN cache' : cache'[k] = cache[k]]_vars
    /\ \A k \in Keys : Expired(k) ~> ~Expired(k)

\* C8 witness: a sweep removed an expired entry and kept a live one.
C8_Witness ==
    /\ lastOp.op = "sweep"
    /\ lastOp.log = "CLEANED"
    /\ cache # <<>>

-----------------------------------------------------------------------------
(* Properties of validateCompanyNameMatch.                                 *)

Returned == match # NoName /\ match.result # NULL

\* A number given as <<numerator, denominator>> is a number in [0, 1].
InUnitInterval(x) == x[2] > 0 /\ atLeast(x, 0, 1) /\ ~moreThan(x, 1, 1)

\* C9: a non-empty name matched against itself gives isMatch = true,
\* confidence 1.0 and no issue.
C9_SameNameMatchesExactly ==
    (Returned /\ match.user = match.ai /\ match.user # <<>>) =>
        /\ match.result[1].isMatch
        /\ match.result[1].confidence[1] = match.result[1].confidence[2]
        /\ match.result[1].confidence[2] > 0
        /\ ulpsOf(match.result[1].confidence) = 0
        /\ match.result[1].issues = <<>>

\* C9 witness: a non-empty name without any word longer than 2 characters
\* was matched against itself.
C9_Witness ==
    /\ Returned
    /\ match.user = match.ai
    /\ match.user # <<>>
    /\ eligibleWords(normalizeCompanyName(match.user)) = <<>>
    /\ match.result[1].isMatch

\* C10: every call returns a result whose confidence is a number in [0, 1],
\* never NaN.
C10_ConfidenceInUnitInterval ==
    Returned =>
        /\ match.result[1].isMatch \in BOOLEAN
        /\ match.result[1].confidence # NaN
        /\ InUnitInterval(match.result[1].confidence)

\* C10 witness: two different names without any word longer than 2
\* characters reached the last branch with the overlap ratio guarded to 0.
C10_Witness ==
    /\ Returned
    /\ eligibleWords(normalizeCompanyName(match.user)) = <<>>
    /\ eligibleWords(normalizeCompanyName(match.ai)) = <<>>
    /\ ~match.result[1].isMatch
    /\ match.result[1].confidence = <<0, 1>>

\* C11: normalizeCompanyName is idempotent: normalising the normalised name
\* a call returned gives that name again.
C11_NormalizeIdempotent ==
    Returned =>
        normalizeCompanyName(match.result[1].aiNormalized) = match.result[1].aiNormalized

\* The eligible words of the two normalised names of the call.
UserWords == eligibleWords(normalizeCompanyName(match.user))

AiWords == eligibleWords(normalizeCompanyName(match.ai))

\* Every eligible word of the user-entered name is equal to, or has a
\* similarity above 0.7 with, an eligible word of the document's name.
EveryUserWordCovered ==
    \A i \in 1..Len(UserWords) : \E j \in 1..Len(AiWords) :
        \/ UserWords[i] = AiWords[j]
        \/ moreThan(calculateStringSimilarity(UserWords[i], AiWords[j]), 7, 10)

\* C12 as stated: whenever every eligible word of the user-entered name is
\* covered, the call returns isMatch = true with confidence >= 0.7.
C12_TypoToleranceAnyName ==
    (Returned /\ EveryUserWordCovered) =>
        /\ match.result[1].isMatch
        /\ atLeast(match.result[1].confidence, 7, 10)

\* C12, amended: whenever the user-entered name has at least one eligible
\* word and every one of them is covered, the call returns isMatch = true
\* with confidence >= 0.7.
C12_TypoTolerance ==
    (Returned /\ UserWords # <<>> /\ EveryUserWordCovered) =>
        /\ match.result[1].isMatch
        /\ atLeast(match.result[1].confidence, 7, 10)

\* C12 witness: a name with a misspelt word (covered by similarity only, as
\* "motoes" by "motors") was matched against a different name.
C12_Witness ==
    /\ Returned
    /\ UserWords # <<>>
    /\ EveryUserWordCovered
    /\ \E i \in 1..Len(UserWords) : \A j \in 1..Len(AiWords) : UserWords[i] # AiWords[j]
    /\ Len(AiWords) > Len(UserWords)
    /\ match.result[1].isMatch
    /\ match.result[1].issues = <<"Name match with typo tolerance">>

\* The words of a normalised name, of any length.
NameWords(name) == Range(split(normalizeCompanyName(name)))

\* Two numbers given as fractions are the same number.
SameNumber(x, y) == x[2] > 0 /\ y[2] > 0 /\ x[1] * y[2] = y[1] * x[2]

\* Both names contain the same word of the known-short-name table.
SharedTableWord ==
    \E t \in knownShortNames : t \in NameWords(match.user) /\ t \in NameWords(match.ai)

\* A word of length <= 3 of one name is a prefix of a word of the other.
ShortPrefixWord ==
    \E i \in 1..Len(UserWords), j \in 1..Len(AiWords) :
        /\ Len(UserWords[i]) <= 3 \/ Len(AiWords[j]) <= 3
        /\ startsWith(AiWords[j], UserWords[i]) \/ startsWith(UserWords[i], AiWords[j])

\* One name's word starts the other's and is less than half as long.
AbbreviatedWord ==
    \E i \in 1..Len(UserWords), j \in 1..Len(AiWords) :
        \/ Len(AiWords[j]) > 2 * Len(UserWords[i]) /\ startsWith(AiWords[j], UserWords[i])
        \/ Len(UserWords[i]) > 2 * Len(AiWords[j]) /\ startsWith(UserWords[i], AiWords[j])

\* One normalised name contains the other.
ContainedName ==
    \/ includes(normalizeCompanyName(match.ai), normalizeCompanyName(match.user))
    \/ includes(normalizeCompanyName(match.user), normalizeCompanyName(match.ai))

\* The call returned this verdict with this confidence.
Decided(isMatch, confidence) ==
    /\ match.result[1].isMatch = isMatch
    /\ SameNumber(match.result[1].confidence, confidence)

\* C13: the call decides by the first branch that applies: equal normalised
\* names (match, 1.0); overlap ratio >= 0.7 (match, min(ratio + 0.1, 1.0));
\* the same table word in both names, for every entry of the table (match,
\* 0.95); a word of length <= 3 that is a prefix of the other (match, 0.85);
\* abbreviation (match, 0.75); containment (match, 0.8); otherwise no match
\* with the raw overlap ratio as confidence.
C13_FirstBranchDecides ==
    Returned =>
        LET ratio == safeOverlapRatio(UserWords, AiWords) IN
        IF normalizeCompanyName(match.user) = normalizeCompanyName(match.ai)
        THEN Decided(TRUE, <<1, 1>>)
        ELSE IF atLeast(ratio, 7, 10)
        THEN Decided(TRUE, IF atLeast(ratio, 9, 10) THEN <<1, 1>>
                           ELSE <<10 * ratio[1] + ratio[2], 10 * ratio[2]>>)
        ELSE IF SharedTableWord THEN Decided(TRUE, <<95, 100>>)
        ELSE IF ShortPrefixWord THEN Decided(TRUE, <<85, 100>>)
        ELSE IF AbbreviatedWord THEN Decided(TRUE, <<75, 100>>)
        ELSE IF ContainedName THEN Decided(TRUE, <<8, 10>>)
        ELSE Decided(FALSE, ratio)

-----------------------------------------------------------------------------
(* Properties of the RatioCalculator.                                      *)

\* calculateAllRatios has returned.
Calculated == calc # NoCall /\ calc.op = "calculate" /\ calc.ratios # NULL

\* The inputs each ratio's formula requires.
RequiredInputs ==
    [grossMargin |-> {"grossProfit", "revenue"},
     operatingMargin |-> {"operatingIncome", "revenue"},
     profitMargin |-> {"netIncome", "revenue"},
     roe |-> {"netIncome", "shareholdersEquity"},
     roa |-> {"netIncome", "totalAssets"},
     roic |-> {"netIncome", "totalDebt", "shareholdersEquity"},
     currentRatio |-> {"currentAssets", "currentLiabilities"},
     quickRatio |-> {"currentAssets", "currentLiabilities"},
     cashRatio |-> {"cashEquivalents", "currentLiabilities"},
     debtToEquity |-> {"totalDebt", "shareholdersEquity"},
     debtToAssets |-> {"totalDebt", "totalAssets"},
     eps |-> {"netIncome", "sharesOutstanding"},
     bookValuePerShare |-> {"shareholdersEquity", "sharesOutstanding"},
     peRatio |-> {"stockPrice"},
     pbRatio |-> {"stockPrice"}]

\* A value is null, missing or zero.
Unusable(x) == x = NULL \/ x = UNDEFINED \/ isZero(x)

\* A key is null whenever an input its formula requires is null, missing or
\* zero; peRatio and pbRatio also whenever the computed eps or
\* bookValuePerShare is null or zero.
NullWithoutInputs ==
    LET ratios == calc.ratios[1] IN
    /\ \A k \in DOMAIN RequiredInputs :
         (\E f \in RequiredInputs[k] : Unusable(calc.inputs[f])) => ratios[k] = NULL
    /\ Unusable(ratios.eps) => ratios.peRatio = NULL
    /\ Unusable(ratios.bookValuePerShare) => ratios.pbRatio = NULL

\* C14: for every bag of finite numbers, nulls and missing fields,
\* calculateAllRatios returns its 15 keys, each a finite number or null, and a
\* key is null whenever an input its formula requires is null, missing or zero.
C14_RatiosFiniteOrNull ==
    Calculated =>
        /\ DOMAIN calc.ratios[1] = DOMAIN RequiredInputs
        /\ \A k \in DOMAIN calc.ratios[1] :
             calc.ratios[1][k] = NULL \/ isFinite(calc.ratios[1][k])
        /\ NullWithoutInputs

\* validateRatios has returned, on the ratios of calculateAllRatios.
Validated == Calculated /\ calc.validated # NULL

\* validateRatios has been given a mapping.
Given == calc # NoCall /\ calc.ratios # NULL

\* A finite number between the two bounds of its ratio name.
WithinBounds(ratio, value) ==
    LET ulps == IF Len(value) = 4 THEN value[4] ELSE 0
        min == bounds[ratio][1] * value[2]
        max == bounds[ratio][2] * value[2]
    IN /\ isFinite(value)
       /\ min < value[1] \/ (min = value[1] /\ ulps >= 0)
       /\ value[1] < max \/ (max = value[1] /\ ulps <= 0)

\* C15: for every mapping, every value validateRatios returns is null or
\* inside the bounds of its ratio name: a value outside them is replaced by
\* null and a value inside them is returned as it is; the mapping it was
\* given is not modified.
C15_ValidatedWithinBounds ==
    /\ []((Given /\ calc.validated # NULL) =>
            \A k \in DOMAIN calc.ratios[1] :
                LET given == calc.ratios[1][k]
                    returned == calc.validated[1][k]
                IN /\ returned = NULL \/ WithinBounds(k, returned)
                   /\ (given # NULL /\ ~WithinBounds(k, given)) => returned = NULL
                   /\ (given # NULL /\ WithinBounds(k, given)) => returned = given)
    /\ [][(Given /\ calc.validated = NULL /\ calc'.validated # NULL) =>
            (calc'.ratios = calc.ratios /\ DOMAIN calc'.validated[1] = DOMAIN calc.ratios[1])]_vars

\* The documented formulas: the numerator of each ratio, the constant it is
\* multiplied by (x 100, x 0.7, x 1000 or none) and its denominator.
NumeratorField ==
    [grossMargin |-> "grossProfit", operatingMargin |-> "operatingIncome",
     profitMargin |-> "netIncome", roe |-> "netIncome", roa |-> "netIncome",
     roic |-> "netIncome", currentRatio |-> "currentAssets",
     quickRatio |-> "currentAssets", cashRatio |-> "cashEquivalents",
     debtToEquity |-> "totalDebt", debtToAssets |-> "totalDebt", eps |-> "netIncome",
     bookValuePerShare |-> "shareholdersEquity", peRatio |-> "stockPrice",
     pbRatio |-> "stockPrice"]

FormulaFactor ==
    [grossMargin |-> <<100, 1>>, operatingMargin |-> <<100, 1>>,
     profitMargin |-> <<100, 1>>, roe |-> <<100, 1>>, roa |-> <<100, 1>>,
     roic |-> <<100, 1>>, currentRatio |-> <<1, 1>>, quickRatio |-> <<7, 10>>,
     cashRatio |-> <<1, 1>>, debtToEquity |-> <<1, 1>>, debtToAssets |-> <<100, 1>>,
     eps |-> <<1000, 1>>, bookValuePerShare |-> <<1000, 1>>, peRatio |-> <<1, 1>>,
     pbRatio |-> <<1, 1>>]

\* totalDebt + shareholdersEquity as a real number; a multiple of MIN_VALUE
\* next to an ordinary number is below every tolerance and is left out.
InvestedCapital ==
    LET debt == calc.inputs.totalDebt
        equity == calc.inputs.shareholdersEquity
    IN IF debt[3] = equity[3]
       THEN <<debt[1] * equity[2] + equity[1] * debt[2], debt[2] * equity[2], debt[3]>>
       ELSE IF debt[3] = 0 THEN debt ELSE equity

FormulaDenominator(k) ==
    CASE k \in {"grossMargin", "operatingMargin", "profitMargin"} -> calc.inputs.revenue
      [] k \in {"roe", "debtToEquity"} -> calc.inputs.shareholdersEquity
      [] k \in {"roa", "debtToAssets"} -> calc.inputs.totalAssets
      [] k = "roic" -> InvestedCapital
      [] k \in {"currentRatio", "quickRatio", "cashRatio"} -> calc.inputs.currentLiabilities
      [] k \in {"eps", "bookValuePerShare"} -> calc.inputs.sharesOutstanding
      [] k = "peRatio" -> calc.ratios[1].eps
      [] k = "pbRatio" -> calc.ratios[1].bookValuePerShare

\* All inputs of the ratio are present and non-zero.
InputsUsable(k) ==
    /\ \A f \in RequiredInputs[k] : ~Unusable(calc.inputs[f])
    /\ k = "peRatio" => ~Unusable(calc.ratios[1].eps)
    /\ k = "pbRatio" => ~Unusable(calc.ratios[1].bookValuePerShare)

\* The finite number r is the real number (a / b) * f rounded to 2 decimals:
\* |r - (a / b) * f| <= 0.005.
RoundedTo2(r, a, b, f) ==
    LET n == a[1] * f[1] * b[2] * Sign(b[1])
        d == a[2] * f[2] * Abs(b[1])
        diff == 200 * r[1] * d - 200 * n * r[2]
    IN isFinite(r) /\ r[3] = 0 /\ Abs(diff) <= r[2] * d

\* The value of the key is the documented formula rounded to 2 decimals.
IsFormulaValue(k) ==
    LET r == calc.ratios[1][k]
        a == calc.inputs[NumeratorField[k]]
        b == FormulaDenominator(k)
    IN /\ r # NULL
       /\ IF b[2] = 0 THEN isZero(r)
          ELSE IF b[1] = 0 THEN FALSE
          ELSE IF a[3] > b[3] THEN isZero(r)
          ELSE IF a[3] < b[3] THEN FALSE
          ELSE RoundedTo2(r, a, b, FormulaFactor[k])

\* C16: whenever all inputs of a ratio are present and non-zero,
\* calculateAllRatios returns the documented formula rounded to 2 decimals;
\* {revenue: 10, netIncome: 1.5, grossProfit: null} gives profitMargin =
\* 15.0 and grossMargin = null.
C16_FormulaWheneverInputsPresent ==
    Calculated =>
        /\ \A k \in DOMAIN NumeratorField : InputsUsable(k) => IsFormulaValue(k)
        /\ (/\ calc.inputs.revenue = Num(10, 1)
            /\ calc.inputs.netIncome = Num(3, 2)
            /\ calc.inputs.grossProfit = NULL)
           => (calc.ratios[1].profitMargin = Num(1500, 100) /\ calc.ratios[1].grossMargin = NULL)

\* calculateConfidenceScore has returned.
Scored == calc.score # NULL

\* The input is present: a number other than 0 (the reading of "present"
\* under which an input of 0 earns no bonus, as for the ratios).
Present(x) == x # UNDEFINED /\ x # NULL /\ x[1] # 0

\* The bonus in hundredths: 0.2, 0.15 and 0.1 for the three pairs of inputs.
BonusHundredths ==
    (IF Present(calc.inputs.revenue) /\ Present(calc.inputs.netIncome) THEN 20 ELSE 0)
    + (IF Present(calc.inputs.totalAssets) /\ Present(calc.inputs.shareholdersEquity)
       THEN 15 ELSE 0)
    + (IF Present(calc.inputs.currentAssets) /\ Present(calc.inputs.currentLiabilities)
       THEN 10 ELSE 0)

NonNullRatioCount == Cardinality({ k \in DOMAIN calc.scored[1] : calc.scored[1][k] # NULL })

TotalRatioCount == Cardinality(DOMAIN calc.scored[1])

\* The score is min(1.0, nonNullRatioCount / totalRatioCount + bonus), as
\* the nearest double or one at most 2 units in the last place from it.
IsCappedSum(score) ==
    LET n == 100 * NonNullRatioCount + BonusHundredths * TotalRatioCount
        d == 100 * TotalRatioCount
    IN /\ isFinite(score)
       /\ IF n >= d THEN score[1] = score[2] ELSE score[1] * d = n * score[2]
       /\ Len(score) = 4 => (-2 <= score[4] /\ score[4] <= 2)

\* C17: for every inputs bag and every ratios mapping, calculateConfidenceScore
\* returns min(1.0, nonNullRatioCount / totalRatioCount + bonus), with a bonus
\* of 0.2 for revenue and netIncome, 0.15 for totalAssets and
\* shareholdersEquity and 0.1 for currentAssets and currentLiabilities, and
\* the result is a number in [0, 1.0].
C17_ConfidenceScoreCapped ==
    Scored =>
        LET score == calc.score[1]
        IN /\ IsCappedSum(score)
           /\ score[3] = 0
           /\ 0 <= score[1]
           /\ score[1] <= score[2]
           /\ (Len(score) = 4 /\ score[1] = score[2]) => score[4] < 0

-----------------------------------------------------------------------------
(* Properties of the NumberParser.                                         *)

\* mergeExtractionResults has returned.
Merged == parse.op = "merge" /\ parse.merged # NULL

\* The AI value is present, non-null and non-zero.
AiValuePresent(aiValue) == aiValue # UNDEFINED /\ aiValue # NULL /\ aiValue[1] # 0

\* No candidate of the list has a higher confidence than this one.
HighestConfidence(number, numbers) ==
    \A i \in 1..Len(numbers) : ~numLess(number.confidence, numbers[i].confidence)

\* The merged object holds for the key what the AI result held, or nothing
\* where the AI result held nothing.
SameAsAi(key) ==
    /\ key \in DOMAIN parse.merged[1] <=> key \in DOMAIN parse.aiResult
    /\ key \in DOMAIN parse.aiResult => parse.merged[1][key] = parse.aiResult[key]

\* The metric and its two sibling fields are set from the candidate.
FilledFrom(metric, number) ==
    /\ {metricKey(metric), confidenceKey(metric), evidenceKey(metric)}
           \subseteq DOMAIN parse.merged[1]
    /\ parse.merged[1][metricKey(metric)] = number.value
    /\ parse.merged[1][confidenceKey(metric)] = number.confidence
    /\ parse.merged[1][evidenceKey(metric)] = number.evidenceSnippet

\* C18: for every metric with at least one heuristic candidate, the merged
\* value is the AI value when that is present, non-null and non-zero, and no
\* sibling field is added; otherwise the merged value is that of the
\* highest-confidence candidate, and <metric>_confidence and
\* <metric>_evidence are set from that candidate.  The AI value of a metric
\* is the field of the AI result under the key of the Map.  A present,
\* non-zero value of the AI result is never replaced: the company name,
\* cashEquivalents, totalDebt, shareholdersEquity and the values under the
\* keys of the Map are what they were.
C18_AiWinsHeuristicFillsGaps ==
    Merged =>
        /\ \A e \in 1..Len(parse.heuristicResults) :
              LET metric == parse.heuristicResults[e][1]
                  numbers == parse.heuristicResults[e][2]
                  aiValue == property(parse.aiResult, metricKey(metric))
              IN Len(numbers) > 0 =>
                   IF AiValuePresent(aiValue)
                   THEN /\ SameAsAi(metricKey(metric))
                        /\ SameAsAi(confidenceKey(metric))
                        /\ SameAsAi(evidenceKey(metric))
                   ELSE \E i \in 1..Len(numbers) :
                          /\ HighestConfidence(numbers[i], numbers)
                          /\ FilledFrom(metric, numbers[i])
        /\ \A key \in OtherKeys : SameAsAi(key)
        /\ \A key \in (DOMAIN parse.aiResult) \cap Range(MetricNames) :
              AiValuePresent(parse.aiResult[key]) => SameAsAi(key)

\* C18 witness: with candidates for debt and for bookValue, an AI debt of 0
\* was replaced by the candidate of confidence 0.9, ahead of one of
\* confidence 0.7, and an AI bookValue of 1.5 was kept without sibling
\* fields; cashEquivalents and totalDebt are still 1.5.
C18_Witness ==
    /\ Merged
    /\ Len(parse.heuristicResults) = 2
    /\ parse.heuristicResults[1][1] = MetricNames[5]
    /\ parse.heuristicResults[2][1] = MetricNames[10]
    /\ property(parse.aiResult, metricKey(MetricNames[10])) = Num(3, 2)
    /\ property(parse.merged[1], metricKey(MetricNames[10])) = Num(3, 2)
    /\ evidenceKey(MetricNames[10]) \notin DOMAIN parse.merged[1]
    /\ confidenceKey(MetricNames[10]) \notin DOMAIN parse.merged[1]
    /\ property(parse.aiResult, metricKey(MetricNames[5])) = Num(0, 1)
    /\ Len(parse.heuristicResults[1][2]) = 2
    /\ parse.heuristicResults[1][2][2].confidence = Num(7, 10)
    /\ parse.merged[1][metricKey(MetricNames[5])] = Num(1234, 1000)
    /\ parse.merged[1][confidenceKey(MetricNames[5])] = Num(9, 10)
    /\ parse.merged[1][evidenceKey(MetricNames[5])] = <<"R", "e", "v", "e", "n", "u", "e", " ", "w", "a", "s", " ", "1", ",", "2", "3", "4">>
    /\ parse.merged[1][CashEquivalentsKey] = Num(3, 2)
    /\ parse.merged[1][TotalDebtKey] = Num(3, 2)

\* convertToBillionsUSD has returned.
Converted == parse.op = "convert" /\ parse.converted # NULL

\* The scale factors, in thousandths of a billion per unit of the scale:
\* thousands /1e6, millions /1e3, billions x1, crores /100, lakhs /10000 and
\* any other scale /1e9, each times 1000.
ThousandthsPerUnit ==
    [thousands |-> <<1, 1000>>, millions |-> <<1, 1>>, billions |-> <<1000, 1>>,
     crores |-> <<10, 1>>, lakhs |-> <<1, 10>>, units |-> <<1, 1000000>>]

\* The currency factors: INR /83, EUR x1.1, GBP x1.25, USD and unknown x1.
CurrencyFactor ==
    [INR |-> <<1, 83>>, EUR |-> <<11, 10>>, GBP |-> <<5, 4>>, USD |-> <<1, 1>>,
     unknown |-> <<1, 1>>]

\* The canonical value, in thousandths, as numerator and denominator.
CanonicalThousandths ==
    LET s == ThousandthsPerUnit[parse.context.documentScale]
        c == CurrencyFactor[parse.context.currency]
    IN <<parse.value[1] * s[1] * c[1], parse.value[2] * s[2] * c[2]>>

\* C19: for every value and every scale and currency, convertToBillionsUSD
\* returns value x scaleFactor x currencyFactor rounded to 3 decimals: a whole
\* number of thousandths at most half a thousandth away from the product.
C19_CanonicalValue ==
    Converted =>
        LET result == parse.converted[1]
            x == CanonicalThousandths
        IN /\ result[2] = 1000 /\ result[3] = 0
           /\ 2 * Abs(result[1] * x[2] - x[1]) <= x[2]

\* C19 witness: 1234 in millions of INR gave 1234 / 1000 / 83 = 0.01487
\* rounded to 0.015, and not 0.
C19_Witness ==
    /\ Converted
    /\ parse.value = Num(1234, 1)
    /\ parse.context = [documentScale |-> "millions", currency |-> "INR"]
    /\ parse.converted = Str(Num(15, 1000))

\* The result re-scaled by the inverse scale and currency factors, as
\* numerator and denominator: result / scaleFactor / currencyFactor.
RescaledBack ==
    LET s == ThousandthsPerUnit[parse.context.documentScale]
        c == CurrencyFactor[parse.context.currency]
    IN <<parse.converted[1][1] * s[2] * c[2], s[1] * c[1]>>

\* |value - back|, as the numerator over parse.value[2] * RescaledBack[2].
RoundTripError ==
    Abs(parse.value[1] * RescaledBack[2] - RescaledBack[1] * parse.value[2])

\* C20 as stated: converting and then re-scaling the result by the inverse
\* scale and currency factors returns the original value within the rounding
\* tolerance of 3 decimals, |value - back| <= 0.0005.
C20_RoundTripWithinThousandth ==
    Converted => RoundTripError <= (parse.value[2] * RescaledBack[2]) \div 2000

\* scaleFactor x currencyFactor >= 1
FactorAtLeastOne ==
    LET s == ThousandthsPerUnit[parse.context.documentScale]
        c == CurrencyFactor[parse.context.currency]
    IN (s[1] * c[1]) \div 1000 >= s[2] * c[2]

\* C20, amended: converting and then re-scaling the result by the inverse
\* factors returns the original value within the rounding tolerance of 3
\* decimals re-scaled by the same inverse factors, |value - back| <= 0.0005 /
\* (scaleFactor x currencyFactor); that is within 0.0005 where scaleFactor x
\* currencyFactor >= 1.
C20_RoundTripWithinRescaledTolerance ==
    Converted =>
        LET s == ThousandthsPerUnit[parse.context.documentScale]
            c == CurrencyFactor[parse.context.currency]
        IN /\ 2 * RoundTripError <= parse.value[2] * s[2] * c[2]
           /\ FactorAtLeastOne =>
                RoundTripError <= (parse.value[2] * RescaledBack[2]) \div 2000

\* C20 witness: 1234 in units of USD was converted to 0, which re-scales to
\* 0: the round trip is off by 1234, within 0.0005 x 1e9.
C20_Witness ==
    /\ Converted
    /\ parse.value = Num(1234, 1)
    /\ parse.context = [documentScale |-> "units", currency |-> "USD"]
    /\ isZero(parse.converted[1])
    /\ RescaledBack[1] = 0

\* ---------------------------------------------------------------------
\* Properties of the documents.

\* detectDocumentContext and extractFinancialNumbers have run on a document.
Extracted == parse.op = "extract" /\ parse.context # NULL /\ parse.heuristicResults # NULL

\* Where the matches of a pattern start in the text.
MatchStarts(text, pattern) ==
    Apply(LAMBDA lower :
              { i \in 1..Len(lower) :
                  \E phrase \in pattern : matchPhraseAt(lower, i, phrase) # 0 },
          ignoreCase(text))

\* The name is that of the first match of the category in the text: of a
\* pattern that matches no later in the text than any pattern of the
\* table; the default when no pattern of the table matches.
IsFirstMatch(name, text, patterns, default) ==
    Apply(LAMBDA starts :
              \/ \E k \in 1..Len(patterns) :
                    /\ name = patterns[k][1]
                    /\ \E first \in starts[k] :
                          \A j \in 1..Len(patterns) : \A other \in starts[j] : first <= other
              \/ /\ name = default
                 /\ \A k \in 1..Len(patterns) : starts[k] = {},
          [k \in 1..Len(patterns) |-> MatchStarts(text, patterns[k][2])])

\* The period phrase of the text: what follows the first anchor of the text
\* up to the next full stop, trimmed; null when the text has no anchor.
FirstPeriod(text) ==
    LET lower == ignoreCase(text)
        starts == MatchStarts(text, PeriodAnchors)
        start == CHOOSE i \in starts : \A j \in starts : i <= j
        from == CHOOSE e \in { matchPhraseAt(lower, start, a) : a \in PeriodAnchors } : e # 0
        stops == { k \in from..Len(text) : text[k] = "." }
        to == IF stops = {} THEN Len(text) + 1
              ELSE CHOOSE k \in stops : \A l \in stops : k <= l
    IN IF starts = {} THEN NULL ELSE Str(trim(SubSeq(text, from, to - 1)))

\* "Total revenue ₹8,300 crores"
ExampleSentence ==
    <<"T", "o", "t", "a", "l", " ", "r", "e", "v", "e", "n", "u", "e", " ", "₹", "8", ",", "3", "0", "0", " ", "c", "r", "o", "r", "e", "s">>

\* The text contains the example sentence and no scale or currency marker
\* outside it.
HasOnlyExampleMarkers(text) ==
    \E i \in 1..(Len(text) - Len(ExampleSentence) + 1) :
        /\ SubSeq(text, i, i + Len(ExampleSentence) - 1) = ExampleSentence
        /\ \A k \in 1..Len(SCALE_PATTERNS) :
              ~test(SubSeq(text, 1, i - 1), SCALE_PATTERNS[k][2])
              /\ ~test(SubSeq(text, i + Len(ExampleSentence), Len(text)), SCALE_PATTERNS[k][2])
        /\ \A k \in 1..Len(CURRENCY_PATTERNS) :
              ~test(SubSeq(text, 1, i - 1), CURRENCY_PATTERNS[k][2])
              /\ ~test(SubSeq(text, i + Len(ExampleSentence), Len(text)), CURRENCY_PATTERNS[k][2])

\* The revenue candidates found in the example sentence.
ExampleCandidates ==
    UNION { { c \in Range(parse.heuristicResults[1][e][2]) :
                includes(c.evidenceSnippet, ExampleSentence) } :
            e \in { f \in 1..Len(parse.heuristicResults[1]) :
                      parse.heuristicResults[1][f][1] = MetricNames[1] } }

\* C21: the scale and the currency of the context are those of the first
\* match of their category in the text, units and unknown when the category
\* has no match, and the period is the phrase after the first anchor, null
\* when there is none; for a text with "Total revenue ₹8,300 crores" and no
\* other scale or currency marker the context is INR and crores and the
\* revenue candidate of that sentence has value 1.0.
C21_ContextFirstMatchAndExample ==
    parse.op = "extract" /\ parse.context # NULL =>
        LET context == parse.context[1]
        IN /\ IsFirstMatch(context.documentScale, parse.text, SCALE_PATTERNS, "units")
           /\ IsFirstMatch(context.currency, parse.text, CURRENCY_PATTERNS, "unknown")
           /\ context.period = FirstPeriod(parse.text)
           /\ HasOnlyExampleMarkers(parse.text) =>
                 /\ context.currency = "INR" /\ context.documentScale = "crores"
                 /\ parse.heuristicResults # NULL =>
                       /\ ExampleCandidates # {}
                       /\ \A c \in ExampleCandidates : c.value = Num(1000, 1000)

\* extractFinancialNumbers has returned, under a detected context or under
\* one of the caller's.
CandidatesReturned ==
    /\ parse.op \in {"extract", "candidates"}
    /\ parse.context # NULL
    /\ parse.heuristicResults # NULL

\* The text has a candidate for the i-th metric: a sentence that matches
\* the pattern of the metric and holds a digit.
HasCandidate(text, i) ==
    \E sentence \in Range(splitSentences(text)) :
        /\ test(sentence, FINANCIAL_PATTERNS[i][2])
        /\ Range(sentence) \cap Range(DigitChars) # {}

\* The confidence of a is at least the confidence of b.
AtLeastAsConfident(a, b) == ~numLess(a.confidence, b.confidence)

\* C27: in the map extractFinancialNumbers returns for a text and a context,
\* the list of each metric is in non-increasing order of confidence, so that
\* its first element has the maximum confidence of the list, and a metric is
\* a key of the map, once, exactly when the text has a candidate for it.
C27_CandidatesSortedByConfidence ==
    CandidatesReturned =>
        LET results == parse.heuristicResults[1]
        IN /\ { results[e][1] : e \in 1..Len(results) }
                = { MetricNames[i] : i \in { k \in 1..Len(MetricNames) :
                                               HasCandidate(parse.text, k) } }
           /\ \A e, f \in 1..Len(results) : results[e][1] = results[f][1] => e = f
           /\ \A e \in 1..Len(results) :
                 LET numbers == results[e][2]
                 IN /\ Len(numbers) > 0
                    /\ \A i, j \in 1..Len(numbers) :
                          i < j => AtLeastAsConfident(numbers[i], numbers[j])
                    /\ \A i \in 1..Len(numbers) :
                          AtLeastAsConfident(numbers[1], numbers[i])

\* C27 witness: four revenue candidates, found in the order
\* 0.9999999999999999 (0.7 + 0.1 + 0.1 + 0.1, one unit in the last place
\* below 1), 0.7, 0.9999999999999999, 0.7, were returned with the two of
\* 0.9999999999999999 first, and no other metric, none of which has a
\* candidate, is a key.
C27_Witness ==
    /\ Extracted
    /\ Len(parse.heuristicResults[1]) = 1
    /\ parse.heuristicResults[1][1][1] = MetricNames[1]
    /\ Len(parse.heuristicResults[1][1][2]) = 4
    /\ parse.heuristicResults[1][1][2][2].confidence = <<1, 1, 0, -1>>
    /\ parse.heuristicResults[1][1][2][3].confidence = Num(7, 10)
    /\ parse.heuristicResults[1][1][2][2].value = Num(7000, 1000)

\* ---------------------------------------------------------------------
\* Properties of the KPINormalizer.

\* a.endsWith(b)
EndsWith(a, b) == Len(a) >= Len(b) /\ SubSeq(a, Len(a) - Len(b) + 1, Len(a)) = b

\* The number a metric string stands for, by its trailing unit.
MetricStringValue(string) ==
    LET cleaned == cleanValue(string)
        lower == toLowerCase(cleaned)
        num == parseFloat(numericChars(cleaned))
    IN IF EndsWith(lower, <<"b">>) \/ EndsWith(lower, <<"b", "i", "l", "l", "i", "o", "n">>)
       THEN nullIfNaN(num)
       ELSE IF EndsWith(lower, <<"m">>) \/ EndsWith(lower, <<"m", "i", "l", "l", "i", "o", "n">>)
       THEN (IF num = NaNumber THEN NULL
             ELSE IF num[1] = 0 THEN Num(0, 1)
             ELSE <<num[1], num[2] * 1000, 0>>)
       ELSE nullIfNaN(parseFloat(cleaned))

\* C22: normalizeMetricValue returns null or a finite number for every
\* input: a number unchanged, a string with a trailing b or billion its
\* numeric value, a string with a trailing m or million that value divided
\* by 1000, any other string its plain float, and null for anything that is
\* not numeric.
C22_NormalizedValueFiniteOrNull ==
    kpi.op = "normalizeMetricValue" =>
        /\ kpi.result = NULL \/ isFinite(kpi.result)
        /\ kpi.input.type = "number" => kpi.result = kpi.input.value
        /\ kpi.input.type = "string" => kpi.result = MetricStringValue(kpi.input.value)
        /\ kpi.input.type \notin {"number", "string"} => kpi.result = NULL

\* The synonyms of a name in the table; none for a name that is not a key.
SynonymsOf(map, name) ==
    UNION { Range(map[i][2]) : i \in { j \in 1..Len(map) : map[j][1] = name } }

\* The name at i is the first of the table that qualifies.
IsFirstQualifying(map, i, qualifies(_)) ==
    qualifies(i) /\ \A j \in 1..(i - 1) : ~qualifies(j)

\* The result of a lookup is the first name of the table that qualifies,
\* and null when none does.
IsLookupResult(map, result, qualifies(_)) ==
    IF \E i \in 1..Len(map) : qualifies(i)
    THEN \E i \in 1..Len(map) :
            IsFirstQualifying(map, i, qualifies) /\ result = Str(map[i][1])
    ELSE result = NULL

\* Every synonym added so far is, in lower case, in the list of its name.
AddedSynonymsKept ==
    \A n \in 1..Len(kpi.added) :
        toLowerCase(kpi.added[n][2]) \in SynonymsOf(kpi.synonymMap, kpi.added[n][1])

\* The names of the first table.
FirstKeys == keys(synonymMap)

\* The names addSynonym has created, in the order of their creation.
CreatedKeys ==
    LET created(n) == /\ kpi.added[n][1] \notin Range(FirstKeys)
                      /\ \A m \in 1..(n - 1) : kpi.added[m][1] # kpi.added[n][1]
    IN [n \in 1..Len(SelectSeq([m \in 1..Len(kpi.added) |-> m], created)) |->
          kpi.added[SelectSeq([m \in 1..Len(kpi.added) |-> m], created)[n]][1]]

\* The table is in the order of Object.entries: its array indices come
\* first, in ascending order, and the other names follow, the names of the
\* first table and then the created ones in the order of their creation.
InEntriesOrder ==
    LET names == keys(kpi.synonymMap)
        indices == SelectSeq(names, isArrayIndex)
        others == SelectSeq(names, LAMBDA name : ~isArrayIndex(name))
    IN /\ names = indices \o others
       /\ \A i, j \in 1..Len(indices) : i < j => numeralLess(indices[i], indices[j])
       /\ Range(indices) = { name \in Range(CreatedKeys) : isArrayIndex(name) }
       /\ others = FirstKeys \o SelectSeq(CreatedKeys, LAMBDA name : ~isArrayIndex(name))

\* The list of every name is its list in the first table followed by the
\* synonyms added to the name, in lower case, in the order of the calls.
ListsAsAdded ==
    \A i \in 1..Len(kpi.synonymMap) :
        LET name == kpi.synonymMap[i][1]
            first == { k \in 1..Len(synonymMap) : synonymMap[k][1] = name }
            calls == SelectSeq(kpi.added, LAMBDA call : call[1] = name)
        IN kpi.synonymMap[i][2]
             = (IF first = {} THEN <<>> ELSE synonymMap[CHOOSE k \in first : TRUE][2])
               \o [n \in 1..Len(calls) |-> toLowerCase(calls[n][2])]

\* 401, 408 or 5xx, or an invalid API key.
ConnectivityClass(error) ==
    /\ error.isError
    /\ \/ error.status \in {401, 408} \cup 500..599
       \/ error.name = "AuthenticationError" \/ error.code = "invalid_api_key"
       \/ error.code \in connectivityCodes
       \/ \E pattern \in connectivityPatterns :
             \/ includes(toLowerCase(error.message), pattern)
             \/ includes(toLowerCase(error.stack), pattern)

\* C24: Gemini is invoked at most once, and only after OpenAI has failed
\* with a connectivity-class error; an OpenAI failure of another class is
\* raised to the caller without Gemini being invoked; and when both
\* providers have failed the call returns the basic insights instead of
\* raising an error.
C24_ProviderFallback ==
    /\ insights.geminiCalls <= 1
    /\ insights.geminiCalls = 1 =>
          insights.error # NULL /\ ConnectivityClass(insights.error[1])
    /\ insights.error # NULL /\ ~ConnectivityClass(insights.error[1]) =>
          insights.geminiCalls = 0 /\ insights.outcome = Rejected
    /\ insights.error # NULL /\ insights.geminiFailed =>
          insights.outcome = Resolved("basic", generateBasicInsights(insights.metrics))

\* ---------------------------------------------------------------------
\* Further properties of WebDataCache.

\* C25: a set on a query that already has an entry replaces the payload and
\* the expiry of that entry and removes no other entry, even when the cache
\* holds maxCacheSize entries: the keys of the cache are unchanged.
C25_SetOnExistingKeyEvictsNothing ==
    [][\A k \in Keys :
         (SetStep(k) /\ k \in DOMAIN cache) =>
             /\ DOMAIN cache' = DOMAIN cache
             /\ \A x \in (DOMAIN cache) \ {k} : cache'[x] = cache[x]
             /\ cache'[k] = [data |-> lastOp'.data, timestamp |-> now,
                             expiresAt |-> now + TTL]]_vars

\* ---------------------------------------------------------------------
\* Further properties of validateCompanyNameMatch.

\* The user words that match a word of the document name, exactly or fuzzily.
MatchingUserWords ==
    { i \in 1..Len(UserWords) :
        \E j \in 1..Len(AiWords) :
            UserWords[i] = AiWords[j] \/ isFuzzyMatch(UserWords[i], AiWords[j]) }

\* The call returned from the word-overlap step.
AcceptedByOverlap ==
    Returned /\ match.result[1].issues = <<"Name match with typo tolerance">>

\* C26: exactMatches + fuzzyMatches never exceeds the number of eligible
\* user words, and the word-overlap step accepts two names only when the
\* matching user words are at least 70% of the word count of the shorter
\* name.
C26_OneMatchPerUserWord ==
    Returned =>
        /\ totalMatches(UserWords, AiWords, 1) <= Len(UserWords)
        /\ AcceptedByOverlap =>
              10 * Cardinality(MatchingUserWords) >= 7 * Min2(Len(UserWords), Len(AiWords))

\* The caller's test of a result (the name validation of /api/analyze/metrics)
\* with its confidence threshold: isMatch && confidence >= threshold.
isValidName(nameValidation, threshold) ==
    nameValidation.isMatch /\ atLeast(nameValidation.confidence, threshold[1], threshold[2])

\* Caller thresholds at or below 0.7; 0.5 is the one of the route.
Thresholds == { <<0, 1>>, <<1, 2>>, <<7, 10>> }

\* C28: in every result the flag and the confidence agree: isMatch = TRUE
\* implies confidence >= 0.75, isMatch = FALSE implies confidence < 0.7, and
\* the caller's test with a threshold at or below 0.7 accepts exactly the
\* results with isMatch = TRUE.
C28_FlagAndConfidenceAgree ==
    Returned =>
        LET result == match.result[1]
        IN /\ result.isMatch => atLeast(result.confidence, 75, 100)
           /\ ~result.isMatch =>
                 /\ result.confidence # NaN
                 /\ ~atLeast(result.confidence, 7, 10)
           /\ \A threshold \in Thresholds :
                 isValidName(result, threshold) <=> result.isMatch

\* C28 witness: two names with an overlap ratio of 3/4, between the 0.7 of
\* the overlap step and the 0.75 of the claim, were accepted by that step
\* with a confidence above 0.75, and the caller's test at 0.5 accepts them.
C28_Witness ==
    /\ AcceptedByOverlap
    /\ safeOverlapRatio(UserWords, AiWords) = <<3, 4>>
    /\ atLeast(match.result[1].confidence, 75, 100)
    /\ isValidName(match.result[1], <<1, 2>>)

\* C29: when exactly one of the two names normalises to the empty string
\* and the other to a non-empty name, the call returns isMatch = FALSE.
C29_EmptyNameNeverMatches ==
    (/\ Returned
     /\ (normalizeCompanyName(match.user) = <<>>) # (normalizeCompanyName(match.ai) = <<>>))
        => ~match.result[1].isMatch

\* ---------------------------------------------------------------------
\* Further properties of the RatioCalculator.

\* A value that is neither null nor undefined.
NonNull(value) == value # NULL /\ value # UNDEFINED

\* C30: in validateRatios(calculateAllRatios(inputs)) peRatio is non-null
\* only if eps is non-null, and pbRatio is non-null only if
\* bookValuePerShare is non-null.
C30_ValuationNeedsPerShare ==
    Validated =>
        LET validated == calc.validated[1]
        IN /\ NonNull(validated.peRatio) => NonNull(validated.eps)
           /\ NonNull(validated.pbRatio) => NonNull(validated.bookValuePerShare)

====
